---------------------------- MODULE Spec2Model ----------------------------
(***************************************************************************)
(* A model of Tabminal's server-side terminal broker:                      *)
(*   - TerminalSession (src/unnamed/part_006, lines 1-857)                 *)
(*   - TerminalManager (src/unnamed/part_004)                              *)
(*   - the WebSocket wiring of src/src/server.mjs                          *)
(*                                                                         *)
(* A JavaScript string is a sequence of characters.  A printable ASCII     *)
(* character is the one-character string itself; a control character is    *)
(* written by its name (ESC, BEL, CR, LF, ...).                            *)
(***************************************************************************)
EXTENDS Integers, Sequences, FiniteSets, TLC

VARIABLES
    sess,       \* the TerminalSession objects ever constructed, by allocation order
    sock,       \* the WebSocket objects: readyState, the session they were attached to, what they were sent
    sessions,   \* TerminalManager.sessions: the Map id -> session object (an index of sess)
    lastCols,   \* TerminalManager.lastCols
    lastRows,   \* TerminalManager.lastRows
    disposing,  \* TerminalManager.disposing
    now,        \* the wall clock read by new Date()
    threw       \* whether the handler that ran last ended by throwing to its caller

vars == <<sess, sock, sessions, lastCols, lastRows, disposing, now, threw>>

-----------------------------------------------------------------------------
(* Characters *)

ESC == "ESC"    \* \x1b
BEL == "BEL"    \* \x07
BS  == "BS"     \* \x08, \b
TAB == "TAB"    \* \t
LF  == "LF"     \* \n
CR  == "CR"     \* \r
NAK == "NAK"    \* \x15, Ctrl+U
DEL == "DEL"    \* \x7f
Prompt276F == "U276F"  \* the heavy right-pointing angle of fancy prompts, one code unit above 127

Printable ==
    << " ", "!", "\"", "#", "$", "%", "&", "'", "(", ")", "*", "+", ",", "-", ".", "/",
       "0", "1", "2", "3", "4", "5", "6", "7", "8", "9", ":", ";", "<", "=", ">", "?",
       "@", "A", "B", "C", "D", "E", "F", "G", "H", "I", "J", "K", "L", "M", "N", "O",
       "P", "Q", "R", "S", "T", "U", "V", "W", "X", "Y", "Z", "[", "\\", "]", "^", "_",
       "GRAVE", "a", "b", "c", "d", "e", "f", "g", "h", "i", "j", "k", "l", "m", "n", "o",
       "p", "q", "r", "s", "t", "u", "v", "w", "x", "y", "z", "{", "|", "}", "~" >>

ControlCode ==
    [c \in {ESC, BEL, BS, TAB, LF, CR, NAK, DEL} |->
        CASE c = ESC -> 27 [] c = BEL -> 7 [] c = BS -> 8 [] c = TAB -> 9
          [] c = LF -> 10 [] c = CR -> 13 [] c = NAK -> 21 [] c = DEL -> 127]

PrintableCode == [c \in {Printable[i] : i \in 1..Len(Printable)} |->
                    31 + (CHOOSE i \in 1..Len(Printable) : Printable[i] = c)]

\* The UTF-16 code unit of a character.
Code(c) == IF c \in DOMAIN ControlCode THEN ControlCode[c]
           ELSE IF c = Prompt276F THEN 10095 ELSE PrintableCode[c]

\* String.fromCharCode for the codes the model meets.
Chr(n) == IF n >= 32 /\ n <= 126 THEN Printable[n - 31]
          ELSE CHOOSE c \in DOMAIN ControlCode : ControlCode[c] = n

IsDigit(c) == c \in {"0", "1", "2", "3", "4", "5", "6", "7", "8", "9"}
IsAlpha(c) == Code(c) \in (65..90) \cup (97..122)
\* The whitespace of String.prototype.trim and of the regex class \s, among the characters above.
IsSpace(c) == c \in {" ", TAB, LF, CR}

-----------------------------------------------------------------------------
(* String primitives of JavaScript, indices from 0 as in the source *)

\* s.slice(from, to) for 0 <= from, to
Slice(s, from, to) == SubSeq(s, from + 1, IF to > Len(s) THEN Len(s) ELSE to)
\* s.slice(from)
SliceFrom(s, from) == SubSeq(s, from + 1, Len(s))

\* s.startsWith(t, at)
StartsWithAt(s, t, at) ==
    /\ at + Len(t) <= Len(s)
    /\ \A j \in 1..Len(t) : s[at + j] = t[j]

StartsWith(s, t) == StartsWithAt(s, t, 0)

\* s.indexOf(t, from): the least index >= from at which t occurs, or -1
IndexOf(s, t, from) ==
    LET hits == {i \in from..(Len(s) - Len(t)) : StartsWithAt(s, t, i)}
    IN IF hits = {} THEN -1 ELSE CHOOSE i \in hits : \A j \in hits : i <= j

\* s.lastIndexOf(t)
LastIndexOf(s, t) ==
    LET hits == {i \in 0..(Len(s) - Len(t)) : StartsWithAt(s, t, i)}
    IN IF hits = {} THEN -1 ELSE CHOOSE i \in hits : \A j \in hits : i >= j

Includes(s, t) == IndexOf(s, t, 0) >= 0

\* the least member of a set of indices, or none when the set is empty
LeastOr(S, none) == IF S = {} THEN none ELSE CHOOSE x \in S : \A y \in S : x <= y
\* the greatest member of a set of indices, or none when the set is empty
GreatestOr(S, none) == IF S = {} THEN none ELSE CHOOSE x \in S : \A y \in S : x >= y

\* s.trimStart(): s from its first character that is not whitespace
TrimStart(s) == SliceFrom(s, LeastOr({i \in 0..(Len(s) - 1) : ~IsSpace(s[i + 1])}, Len(s)))

\* s.trimEnd(): s up to its last character that is not whitespace
TrimEnd(s) == SubSeq(s, 1, GreatestOr({i \in 1..Len(s) : ~IsSpace(s[i])}, 0))

Trim(s) == TrimEnd(TrimStart(s))

\* Number.parseInt(digits, 10) of a non-empty run of decimal digits
RECURSIVE ParseDigits(_)
ParseDigits(s) ==
    IF s = <<>> THEN 0
    ELSE 10 * ParseDigits(SubSeq(s, 1, Len(s) - 1)) + (Code(s[Len(s)]) - 48)

Min(S) == CHOOSE x \in S : \A y \in S : x <= y
Max2(a, b) == IF a >= b THEN a ELSE b

-----------------------------------------------------------------------------
(* The tabminal-private markers: OSC_SEQUENCE_REGEX and PROMPT_MARKER *)

OscPrefix == <<ESC, "]", "1", "3", "3", "7", ";">>
ExitCodeLit == <<"E", "x", "i", "t", "C", "o", "d", "e", "=">>
CommandB64Lit == <<";", "C", "o", "m", "m", "a", "n", "d", "B", "6", "4", "=">>
TabminalPromptLit == <<"T", "a", "b", "m", "i", "n", "a", "l", "P", "r", "o", "m", "p", "t">>

PROMPT_MARKER == OscPrefix \o TabminalPromptLit \o <<BEL>>

\* the class [a-zA-Z0-9+/=]
IsB64(c) == IsAlpha(c) \/ IsDigit(c) \/ c \in {"+", "/", "="}

IsCsiParam(c) == IsDigit(c) \/ c \in {";", "?"}
IsCsiIntermediate(c) == Code(c) >= 32 /\ Code(c) <= 47
IsCsiFinal(c) == Code(c) >= 64 /\ Code(c) <= 126

\* the character classes of the regular expressions, by name
InClass(class, c) ==
    CASE class = "\\d" -> IsDigit(c)
      [] class = "[a-zA-Z0-9+/=]" -> IsB64(c)
      [] class = "[0-9;?]" -> IsCsiParam(c)
      [] class = "[ -\\/]" -> IsCsiIntermediate(c)

\* The end (exclusive, from 0) of the longest run of characters of a class that starts at index i:
\* a greedy X+ or X* of the regex, where what follows the run is not of the class.
RunEnd(s, i, class) ==
    LeastOr({j \in i..(Len(s) - 1) : ~InClass(class, s[j + 1])}, Len(s))

NoMatch == [index |-> -1, end |-> -1, kind |-> "none", exitCodeStr |-> <<>>, cmdB64 |-> <<>>]

\* OSC_SEQUENCE_REGEX anchored at index i: the match, or NoMatch.
\*   \u001b\]1337;(ExitCode=(\d+);CommandB64=([a-zA-Z0-9+/=]+)|TabminalPrompt)\u0007
MatchAt(chunk, i) ==
    IF ~StartsWithAt(chunk, OscPrefix, i) THEN NoMatch
    ELSE
      LET b  == i + Len(OscPrefix)
          d0 == b + Len(ExitCodeLit)
          d1 == RunEnd(chunk, d0, "\\d")
          c0 == d1 + Len(CommandB64Lit)
          c1 == RunEnd(chunk, c0, "[a-zA-Z0-9+/=]")
          p1 == b + Len(TabminalPromptLit)
      IN IF /\ StartsWithAt(chunk, ExitCodeLit, b)
            /\ d1 > d0
            /\ StartsWithAt(chunk, CommandB64Lit, d1)
            /\ c1 > c0
            /\ StartsWithAt(chunk, <<BEL>>, c1)
         THEN [index |-> i, end |-> c1 + 1, kind |-> "exit",
               exitCodeStr |-> Slice(chunk, d0, d1), cmdB64 |-> Slice(chunk, c0, c1)]
         ELSE IF StartsWithAt(chunk, TabminalPromptLit, b) /\ StartsWithAt(chunk, <<BEL>>, p1)
         THEN [index |-> i, end |-> p1 + 1, kind |-> "prompt",
               exitCodeStr |-> <<>>, cmdB64 |-> <<>>]
         ELSE NoMatch

\* OSC_SEQUENCE_REGEX.exec(chunk) with lastIndex = from: the leftmost match at or after from.
ExecOscRegex(chunk, from) ==
    LET hits == {i \in from..(Len(chunk) - 1) : MatchAt(chunk, i).index >= 0}
    IN IF hits = {} THEN NoMatch ELSE MatchAt(chunk, Min(hits))

-----------------------------------------------------------------------------
(* Buffer.from(encoded, 'base64').toString('utf8') *)

B64Val(c) ==
    IF c = "+" THEN 62
    ELSE IF c = "/" THEN 63
    ELSE IF IsDigit(c) THEN Code(c) - 48 + 52
    ELSE IF Code(c) >= 97 THEN Code(c) - 97 + 26
    ELSE Code(c) - 65

\* the bytes of a sequence of 6-bit values, four values to three bytes
RECURSIVE B64Bytes(_)
B64Bytes(v) ==
    IF Len(v) < 2 THEN <<>>
    ELSE
      LET n == v[1] * 262144 + v[2] * 4096
               + (IF Len(v) >= 3 THEN v[3] * 64 ELSE 0)
               + (IF Len(v) >= 4 THEN v[4] ELSE 0)
          b1 == n \div 65536
          b2 == (n \div 256) % 256
          b3 == n % 256
      IN IF Len(v) = 2 THEN <<b1>>
         ELSE IF Len(v) = 3 THEN <<b1, b2>>
         ELSE <<b1, b2, b3>> \o B64Bytes(SubSeq(v, 5, Len(v)))

\* a byte as a character of the decoded text (the commands of the model are ASCII)
Utf8Char(b) ==
    IF b >= 32 /\ b <= 126 THEN Printable[b - 31]
    ELSE IF \E c \in DOMAIN ControlCode : ControlCode[c] = b THEN Chr(b)
    ELSE "UFFFD"

\* the decoder reads up to the first padding character
Base64Decode(encoded) ==
    LET pad  == IndexOf(encoded, <<"=">>, 0)
        body == IF pad < 0 THEN encoded ELSE Slice(encoded, 0, pad)
        vals == [i \in 1..Len(body) |-> B64Val(body[i])]
        bytes == B64Bytes(vals)
    IN [i \in 1..Len(bytes) |-> Utf8Char(bytes[i])]

\* _decodeCommandSafe: the trimmed decoded text; null (here the empty string, which
\* `decoded || null` never returns) when nothing is left
DecodeCommandSafe(encoded) ==
    IF encoded = <<>> THEN <<>> ELSE Trim(Base64Decode(encoded))


-----------------------------------------------------------------------------
(* The regular expressions that strip terminal sequences *)

\* s with every span [i, ends[i+1]) removed, scanning from index i as a global replace does:
\* ends[i+1] is the end of the match that starts at index i, or -1.
RECURSIVE RemoveSpans(_, _, _)

\* the text up to the next match, which starts at index j, and the rest after the match
RemoveNextSpan(s, ends, i, j) ==
    IF j >= Len(s) THEN SliceFrom(s, i)
    ELSE Slice(s, i, j) \o RemoveSpans(s, ends, ends[j + 1])

RemoveSpans(s, ends, i) ==
    IF i >= Len(s) THEN <<>>
    ELSE RemoveNextSpan(s, ends, i, LeastOr({j \in i..(Len(s) - 1) : ends[j + 1] > j}, Len(s)))

\* the first index >= from where a string terminator starts: BEL (when bel) or ESC \ ; -1 if none
TerminatorAt(s, from, bel) ==
    LET hits == {j \in from..(Len(s) - 1) :
                    \/ bel /\ s[j + 1] = BEL
                    \/ StartsWithAt(s, <<ESC, "\\">>, j)}
    IN IF hits = {} THEN -1 ELSE Min(hits)

\* the end of a terminator that starts at j
TerminatorEnd(s, j) == IF s[j + 1] = BEL THEN j + 1 ELSE j + 2

\* the final byte [@-~] of a CSI sequence at index q: the end of the match or -1
CsiFinalEnd(s, q) == IF q < Len(s) /\ IsCsiFinal(s[q + 1]) THEN q + 1 ELSE -1

\* CSI_SEQUENCE_REGEX = /\u001b\[[0-9;?]*[ -\/]*[@-~]/ anchored at i: the end of the match or -1
CsiEnd(s, i) ==
    IF ~StartsWithAt(s, <<ESC, "[">>, i) THEN -1
    ELSE CsiFinalEnd(s, RunEnd(s, RunEnd(s, i + 2, "[0-9;?]"), "[ -\\/]"))

\* OSC_STRIP_REGEX = /\u001b\][\s\S]*?(?:\u0007|\u001b\\)/ anchored at i
OscEnd(s, i) ==
    IF ~StartsWithAt(s, <<ESC, "]">>, i) THEN -1
    ELSE LET j == TerminatorAt(s, i + 2, TRUE)
         IN IF j < 0 THEN -1 ELSE TerminatorEnd(s, j)

\* DCS_SEQUENCE_REGEX = /\u001bP[\s\S]*?(?:\u0007|\u001b\\)/ anchored at i
DcsEnd(s, i) ==
    IF ~StartsWithAt(s, <<ESC, "P">>, i) THEN -1
    ELSE LET j == TerminatorAt(s, i + 2, TRUE)
         IN IF j < 0 THEN -1 ELSE TerminatorEnd(s, j)

\* SOS_PM_APC_SEQUENCE_REGEX = /\u001b[\^_][\s\S]*?\u001b\\/ anchored at i
SosPmApcEnd(s, i) ==
    IF ~(StartsWithAt(s, <<ESC, "^">>, i) \/ StartsWithAt(s, <<ESC, "_">>, i)) THEN -1
    ELSE LET j == TerminatorAt(s, i + 2, FALSE)
         IN IF j < 0 THEN -1 ELSE j + 2

\* TWO_CHAR_ESCAPE_REGEX = /\u001b[@-Z\\-_]/ anchored at i
TwoCharEscapeEnd(s, i) ==
    IF /\ i + 2 <= Len(s)
       /\ s[i + 1] = ESC
       /\ Code(s[i + 2]) \in (64..90) \cup (92..95)
    THEN i + 2 ELSE -1

\* CONTROL_CHAR_REGEX = /[\u0000-\u0008\u000b\u000c\u000e-\u001f\u007f]/ anchored at i
ControlCharEnd(s, i) ==
    IF Code(s[i + 1]) \in (0..8) \cup {11, 12} \cup (14..31) \cup {127} THEN i + 1 ELSE -1

\* the end of the match of a regex, by the name of its constant, anchored at index i
MatchEnd(regex, s, i) ==
    CASE regex = "OSC_STRIP_REGEX" -> OscEnd(s, i)
      [] regex = "DCS_SEQUENCE_REGEX" -> DcsEnd(s, i)
      [] regex = "SOS_PM_APC_SEQUENCE_REGEX" -> SosPmApcEnd(s, i)
      [] regex = "CSI_SEQUENCE_REGEX" -> CsiEnd(s, i)
      [] regex = "TWO_CHAR_ESCAPE_REGEX" -> TwoCharEscapeEnd(s, i)
      [] regex = "CONTROL_CHAR_REGEX" -> ControlCharEnd(s, i)

\* value.replace(regex, '')
ReplaceAllWithEmpty(value, regex) ==
    RemoveSpans(value, [i \in 1..Len(value) |-> MatchEnd(regex, value, i - 1)], 0)

\* _stripAnsi
StripAnsi(value) == ReplaceAllWithEmpty(value, "CSI_SEQUENCE_REGEX")

\* _stripTerminalSequences
StripTerminalSequences(value) ==
    ReplaceAllWithEmpty(
      ReplaceAllWithEmpty(
        ReplaceAllWithEmpty(
          ReplaceAllWithEmpty(
            ReplaceAllWithEmpty(
              ReplaceAllWithEmpty(value, "OSC_STRIP_REGEX"),
              "DCS_SEQUENCE_REGEX"),
            "SOS_PM_APC_SEQUENCE_REGEX"),
          "CSI_SEQUENCE_REGEX"),
        "TWO_CHAR_ESCAPE_REGEX"),
      "CONTROL_CHAR_REGEX")

\* result.replace(/\r\n/g, '\n')
RECURSIVE CrLfToLf(_)

\* the text up to the next \r\n, at index j, a \n, and the rest replaced
CrLfToLfAt(s, j) ==
    IF j < 0 THEN s ELSE Slice(s, 0, j) \o <<LF>> \o CrLfToLf(SliceFrom(s, j + 2))

CrLfToLf(s) == CrLfToLfAt(s, IndexOf(s, <<CR, LF>>, 0))

\* _cleanCapturedText
CleanCapturedText(value) ==
    LET r1 == StripTerminalSequences(value)
        r2 == CrLfToLf(r1)
        r3 == SelectSeq(r2, LAMBDA c : c # CR)
    IN TrimEnd(r3)

-----------------------------------------------------------------------------
(* Echo isolation *)

\* _skipAnsiSequence: the index after the escape sequence that starts at start
SkipAnsiSequence(text, start) ==
    IF start + 1 >= Len(text) THEN start + 1
    ELSE LET code == text[start + 2]
         IN IF code = "["
            THEN LET hits == {idx \in (start + 2)..(Len(text) - 1) : IsCsiFinal(text[idx + 1])}
                 IN IF hits = {} THEN Len(text) ELSE Min(hits) + 1
            ELSE IF code = "]"
            THEN LET j == TerminatorAt(text, start + 2, TRUE)
                 IN IF j < 0 THEN Len(text) ELSE TerminatorEnd(text, j)
            ELSE start + 2

\* _matchTargetAtLineEnd
MatchTargetAtLineEnd(line, target) ==
    IF line = <<>> THEN -1
    ELSE LET idx == LastIndexOf(line, target)
         IN IF idx >= 0 /\ Trim(SliceFrom(line, idx + Len(target))) = <<>> THEN idx ELSE -1

\* _findCommandIndexBySimulation, from index i with the logical line and its source indices
RECURSIVE SimulationLoop(_, _, _, _, _)

\* the source index of the match at idx of the logical line, or the search going on
\* from index next with an empty line (next = -1: the text has ended)
SimulationMatch(text, target, next, indices, idx) ==
    IF idx >= 0 THEN indices[idx + 1]
    ELSE IF next < 0 THEN -1
    ELSE SimulationLoop(text, target, next, <<>>, <<>>)

\* The loop at index i, where j is the next index whose character is an escape, a
\* backspace or a newline: the characters before j are pushed to the line one by one
SimulationAt(text, target, i, line, indices, j) ==
    IF j > i
    THEN SimulationLoop(text, target, j, line \o Slice(text, i, j),
                        indices \o [n \in 1..(j - i) |-> i + n - 1])
    ELSE IF text[i + 1] = ESC
    THEN SimulationLoop(text, target, SkipAnsiSequence(text, i), line, indices)
    ELSE IF text[i + 1] = BS \/ text[i + 1] = DEL
    THEN SimulationLoop(text, target, i + 1,
                        SubSeq(line, 1, Len(line) - 1), SubSeq(indices, 1, Len(indices) - 1))
    ELSE SimulationMatch(text, target, i + 1, indices, MatchTargetAtLineEnd(line, target))

SimulationLoop(text, target, i, line, indices) ==
    IF i >= Len(text)
    THEN SimulationMatch(text, target, -1, indices, MatchTargetAtLineEnd(line, target))
    ELSE SimulationAt(text, target, i, line, indices,
                      LeastOr({j \in i..(Len(text) - 1) :
                                  text[j + 1] \in {ESC, BS, DEL, CR, LF}}, Len(text)))

FindCommandIndexBySimulation(text, target) ==
    IF target = <<>> THEN -1 ELSE SimulationLoop(text, target, 0, <<>>, <<>>)

\* the tail, from a fallback occurrence, within which the occurrence is taken as the echo
FallbackTailLimit == 4096

\* _findCommandEchoIndex keeping the first occurrence that passes the tests, not the last
FindFirstCommandEcho(text, command) ==
    IF text = <<>> \/ Trim(command) = <<>> THEN -1
    ELSE LeastOr({idx \in 0..(Len(text) - Len(Trim(command)) - 1) :
                     /\ StartsWithAt(text, Trim(command), idx)
                     /\ text[idx + Len(Trim(command)) + 1] \in {CR, LF}
                     /\ (idx = 0 \/ text[idx] \in {" ", TAB, CR, LF, "$", ">", Prompt276F,
                                                    ":", ESC})},
                 LastIndexOf(text, Trim(command)))

\* _findCommandEchoIndex
FindCommandEchoIndex(text, command) ==
    IF text = <<>> \/ command = <<>> THEN -1
    ELSE
      LET target == Trim(command)
          prevOk(idx) ==
              \/ idx = 0
              \/ text[idx] \in {" ", TAB, CR, LF, "$", ">", Prompt276F, ":", ESC}
          followedByNewline(idx) ==
              /\ idx + Len(target) < Len(text)
              /\ text[idx + Len(target) + 1] \in {CR, LF}
          good == {idx \in 0..(Len(text) - Len(target)) :
                      /\ StartsWithAt(text, target, idx)
                      /\ followedByNewline(idx)
                      /\ prevOk(idx)}
          fallbackIdx == LastIndexOf(text, target)
      IN IF target = <<>> THEN -1
         ELSE IF good # {} THEN CHOOSE idx \in good : \A j \in good : idx >= j
         ELSE IF fallbackIdx >= 0 /\ Len(text) - fallbackIdx <= FallbackTailLimit THEN fallbackIdx
         ELSE FindCommandIndexBySimulation(text, target)

\* _normalizeSingleLine, from index i with the output so far
RECURSIVE NormalizeLoop(_, _, _)

\* The loop at index i, where j is the next index whose character is a backspace, an
\* escape or a carriage return: the characters before j are appended one by one
NormalizeAt(line, i, out, j) ==
    IF j > i THEN NormalizeLoop(line, j, out \o Slice(line, i, j))
    ELSE IF line[i + 1] = BS \/ line[i + 1] = DEL
    THEN NormalizeLoop(line, i + 1, SubSeq(out, 1, Len(out) - 1))
    ELSE IF line[i + 1] = ESC
    THEN NormalizeLoop(line, SkipAnsiSequence(line, i), out)
    ELSE NormalizeLoop(line, i + 1, out)

NormalizeLoop(line, i, out) ==
    IF i >= Len(line) THEN out
    ELSE NormalizeAt(line, i, out,
                     LeastOr({j \in i..(Len(line) - 1) : line[j + 1] \in {BS, DEL, ESC, CR}},
                             Len(line)))

\* a normalization that removes, in one pass from the left, every character that is
\* followed by a backspace, together with that backspace
RECURSIVE NormalizeByPairs(_)
NormalizeByPairs(line) ==
    IF line = <<>> THEN <<>>
    ELSE IF Len(line) >= 2 /\ line[2] \in {BS, DEL} THEN NormalizeByPairs(SliceFrom(line, 2))
    ELSE IF line[1] \in {ESC, CR} THEN NormalizeByPairs(Tail(line))
    ELSE <<line[1]>> \o NormalizeByPairs(Tail(line))

NormalizeSingleLine(line) == NormalizeLoop(line, 0, <<>>)

\* _trimLineToCommand
TrimLineToCommand(line, command) ==
    IF command = <<>> THEN line
    ELSE LET target == Trim(command)
             idx == IndexOf(line, target, 0)
         IN IF target = <<>> THEN line
            ELSE IF idx >= 0 THEN SliceFrom(line, idx) ELSE line

\* text.search(/[\r\n]/)
SearchNewline(text) ==
    LET hits == {i \in 0..(Len(text) - 1) : text[i + 1] \in {CR, LF}}
    IN IF hits = {} THEN -1 ELSE Min(hits)

\* _normalizeCommandEcho
NormalizeCommandEcho(text, command) ==
    IF text = <<>> THEN text
    ELSE LET newlineIdx == SearchNewline(text)
         IN IF newlineIdx < 0
            THEN TrimLineToCommand(NormalizeSingleLine(text), command)
            ELSE TrimLineToCommand(NormalizeSingleLine(Slice(text, 0, newlineIdx)), command)
                    \o SliceFrom(text, newlineIdx)

\* cleaned.replace(/^[\r\n]+/, '')
RECURSIVE StripLeadingNewlines(_)
StripLeadingNewlines(s) ==
    IF s # <<>> /\ s[1] \in {CR, LF} THEN StripLeadingNewlines(Tail(s)) ELSE s

\* cleaned = buffer.slice(idx) when the echo was found at idx
SliceFromEcho(buffer, idx) == IF idx >= 0 THEN SliceFrom(buffer, idx) ELSE buffer

\* _sanitizeCapturedOutput
SanitizeCapturedOutput(buffer, command) ==
    IF buffer = <<>> THEN <<>>
    ELSE StripLeadingNewlines(
           NormalizeCommandEcho(
             SliceFromEcho(buffer, FindCommandEchoIndex(buffer, command)), command))

\* String.prototype.toLowerCase on one character
ToLower(c) == IF Code(c) >= 65 /\ Code(c) <= 90 THEN Chr(Code(c) + 32) ELSE c

\* _looksLikeContinuationLine
LooksLikeContinuationLine(value) ==
    IF value = <<>> THEN FALSE
    ELSE LET lower == [i \in 1..Len(value) |-> ToLower(value[i])]
         IN \/ StartsWith(lower, <<">">>)
            \/ StartsWith(lower, <<"+">>)
            \/ StartsWith(lower, <<"q", "u", "o", "t", "e", ">">>)
            \/ StartsWith(lower, <<"h", "e", "r", "e", "d", "o", "c", ">">>)
            \/ StartsWith(lower, <<"p", "s", "2", ">">>)
            \/ StartsWith(lower, <<"?">>)

\* the segments of /\r\n|\r|\n/g from index i: each with the length of its raw text
\* (line and newline) and its plain text (the line)
RECURSIVE Segments(_, _)
Segments(text, i) ==
    IF i >= Len(text) THEN <<>>
    ELSE
      LET hits == {j \in i..(Len(text) - 1) : text[j + 1] \in {CR, LF}}
      IN IF hits = {} THEN <<[raw |-> Len(text) - i, plain |-> SliceFrom(text, i)]>>
         ELSE LET lineEnd == Min(hits)
                  next == IF StartsWithAt(text, <<CR, LF>>, lineEnd) THEN lineEnd + 2
                          ELSE lineEnd + 1
              IN <<[raw |-> next - i, plain |-> Slice(text, i, lineEnd)]>>
                    \o Segments(text, next)

\* the loop of _splitInputOutput over segments[i..]: the length added to the input
RECURSIVE InputLengthFrom(_, _)

\* one turn of a loop that goes on after an empty line
InputLengthPastEmptyLine(segments, i, trimmed) ==
    IF trimmed = <<>> \/ LooksLikeContinuationLine(trimmed)
    THEN segments[i].raw + InputLengthFrom(segments, i + 1)
    ELSE 0

\* one turn of the loop, for the trimmed plain text of segments[i]
InputLengthOfLine(segments, i, trimmed) ==
    IF trimmed = <<>> THEN segments[i].raw
    ELSE IF LooksLikeContinuationLine(trimmed)
    THEN segments[i].raw + InputLengthFrom(segments, i + 1)
    ELSE 0

InputLengthFrom(segments, i) ==
    IF i > Len(segments) THEN 0
    ELSE InputLengthOfLine(segments, i, TrimStart(StripAnsi(segments[i].plain)))

\* the first segment is the input; the loop runs over the segments after it
InputLength(segments) == segments[1].raw + InputLengthFrom(segments, 2)

\* input: text.slice(0, inputLength), output: text.slice(inputLength)
SplitAtLength(text, inputLength) ==
    [input |-> Slice(text, 0, inputLength), output |-> SliceFrom(text, inputLength)]

\* _splitInputOutput
SplitInputOutput(text) ==
    IF text = <<>> THEN [input |-> <<>>, output |-> <<>>]
    ELSE SplitAtLength(text, InputLength(Segments(text, 0)))


-----------------------------------------------------------------------------
(* The state the operations work on *)

\* The whole state as one record: an operation of the program is a function from
\* state to state, and an action commits the state that its handler leaves.
World ==
    [sess |-> sess, sock |-> sock, sessions |-> sessions, lastCols |-> lastCols,
     lastRows |-> lastRows, disposing |-> disposing, now |-> now, threw |-> FALSE]

Commit(w) ==
    /\ sess' = w.sess
    /\ sock' = w.sock
    /\ sessions' = w.sessions
    /\ lastCols' = w.lastCols
    /\ lastRows' = w.lastRows
    /\ disposing' = w.disposing
    /\ now' = w.now
    /\ threw' = w.threw

WS_STATE_OPEN == 1
WS_STATE_CLOSED == 3
DEFAULT_HISTORY_LIMIT == 524288
ExecutionsCap == 100

\* A socket nobody has connected yet; received records the frames the client sent, for
\* the properties
\* isAlive is the flag of the heartbeat (unset before the connection, which is not
\* false).  The last four fields are for the properties: the pings the server sent that
\* no pong has answered, whether the heartbeat terminated the socket, the heartbeat
\* ticks so far, and the ticks since the last pong or the connection.
NewSocket ==
    [readyState |-> 0, session |-> 0, sent |-> <<>>, received |-> <<>>, isAlive |-> TRUE,
     pings |-> 0, terminated |-> FALSE, heartbeats |-> 0, sincePong |-> 0]

\* the socket is a member of wss.clients: connected, and its close event not yet emitted
InWssClients(socket) == socket.readyState \in {1, 2}

\* a heartbeat that pings without clearing isAlive
HeartbeatKeepsAlive(socket) ==
    IF ~InWssClients(socket) THEN [socket EXCEPT !.heartbeats = @ + 1]
    ELSE IF ~socket.isAlive
    THEN [socket EXCEPT !.readyState = 2, !.terminated = TRUE, !.heartbeats = @ + 1,
                        !.sincePong = @ + 1]
    ELSE [socket EXCEPT !.pings = @ + 1, !.heartbeats = @ + 1, !.sincePong = @ + 1]

\* the body of the loop of the heartbeat for one socket: terminate() leaves the socket
\* closing until its close event
HeartbeatSocket(socket) ==
    IF ~InWssClients(socket) THEN [socket EXCEPT !.heartbeats = @ + 1]
    ELSE IF ~socket.isAlive
    THEN [socket EXCEPT !.readyState = 2, !.terminated = TRUE, !.heartbeats = @ + 1,
                        !.sincePong = @ + 1]
    ELSE [socket EXCEPT !.isAlive = FALSE, !.pings = @ + 1, !.heartbeats = @ + 1,
                        !.sincePong = @ + 1]

\* socket.on('pong'): the pong of the client answers the pings sent so far
PongSocket(socket) == [socket EXCEPT !.isAlive = TRUE, !.pings = 0, !.sincePong = 0]

\* The pseudo-terminal handed to a session: its geometry, whether the process runs, the
\* details of its exit event once it has exited, and the calls made on it (as the
\* FakePty of the tests records them)
NewPty(cols, rows) ==
    [alive |-> TRUE, exit |-> <<>>, cols |-> cols, rows |-> rows, writes |-> <<>>,
     resizes |-> <<>>, kills |-> <<>>]

\* initFile is whether the init script (tabminal-init-<id>) that createSession wrote
\* for the shell of the session exists.
\* polls are the calls of poll() that have not returned, the first one made by
\* startTitlePolling in the constructor; pollsStarted counts the calls made and
\* pollsFailed those that ended in the catch of poll.
\* stored is whether the side-record <id>.json of the persistence layer exists, saving
\* the number of saveSession calls whose writeFile has not completed, and unlinking the
\* number of deleteSession calls whose unlink has not completed.
\* new TerminalSession(pty, options).  A null date or record is the empty sequence, a
\* value v is <<v>>.  The last four fields record what happened, for the properties:
\* the chunks the PTY emitted, the texts appended to history with their origin, the
\* marker handlers that ran, the number of executions.push calls, and for each push the
\* number of texts that had been forwarded when it was made.
NewSession(id, hasManager, shellTitle, initialCwd, env, historyLimitOption, executions, pty) ==
    [id |-> id,
     manager |-> hasManager,
     title |-> shellTitle,
     cwd |-> initialCwd,
     inputBuffer |-> <<>>,
     env |-> env,
     executions |-> executions,
     historyLimit |-> Max2(1, historyLimitOption),
     history |-> <<>>,
     clients |-> {},
     closed |-> FALSE,
     pollingInterval |-> TRUE,
     captureBuffer |-> <<>>,
     captureStartedAt |-> <<>>,
     lastExecution |-> <<>>,
     skipNextShellLog |-> FALSE,
     suppressPtyOutput |-> FALSE,
     ansiParser |-> [state |-> "GROUND", osc |-> <<>>],
     dataSubscription |-> TRUE,
     exitSubscription |-> TRUE,
     aiInFlight |-> <<>>,
     pty |-> pty,
     initFile |-> FALSE,
     ptyChunks |-> <<>>,
     emitLog |-> <<>>,
     markerLog |-> <<>>,
     pushes |-> 0,
     pushLog |-> <<>>,
     polls |-> <<[read |-> FALSE, cwd |-> <<>>]>>,
     pollsStarted |-> 1,
     pollsFailed |-> 0,
     stored |-> FALSE,
     saving |-> 0,
     unlinking |-> 0]

MetaMessage(s, cols, rows) ==
    [type |-> "meta", title |-> s.title, cwd |-> s.cwd, env |-> s.env,
     cols |-> cols, rows |-> rows]

-----------------------------------------------------------------------------
(* TerminalSession: sending *)

\* _send
Send(w, c, message) ==
    IF w.sock[c].readyState # WS_STATE_OPEN THEN w
    ELSE [w EXCEPT !.sock[c].sent = Append(@, message)]

\* _broadcast sending every message twice
BroadcastTwice(w, k, message) ==
    [w EXCEPT !.sock = [c \in DOMAIN w.sock |->
        IF c \in w.sess[k].clients /\ w.sock[c].readyState = WS_STATE_OPEN
        THEN [w.sock[c] EXCEPT !.sent = Append(Append(@, message), message)]
        ELSE w.sock[c]]]

\* _broadcast: _send to every member of clients
Broadcast(w, k, message) ==
    [w EXCEPT !.sock = [c \in DOMAIN w.sock |->
        IF c \in w.sess[k].clients /\ w.sock[c].readyState = WS_STATE_OPEN
        THEN [w.sock[c] EXCEPT !.sent = Append(@, message)]
        ELSE w.sock[c]]]

\* _appendHistory without the truncation
HistoryNeverTruncated(history, historyLimit, chunk) == history \o chunk

\* _appendHistory truncating at the tail, slice(0, historyLimit)
HistoryTruncatedAtTail(history, historyLimit, chunk) ==
    LET h == history \o chunk
    IN IF Len(h) > historyLimit THEN Slice(h, 0, historyLimit) ELSE h

\* the history that _appendHistory leaves
HistoryAfterAppend(history, historyLimit, chunk) ==
    LET h == history \o chunk
    IN IF Len(h) > historyLimit THEN SliceFrom(h, Len(h) - historyLimit) ELSE h

\* _appendHistory; origin is "pty" for a cleaned chunk and "session" for a text the
\* session itself writes to the terminal
AppendHistory(w, k, chunk, origin) ==
    [w EXCEPT !.sess[k].history = HistoryAfterAppend(@, w.sess[k].historyLimit, chunk),
              !.sess[k].emitLog = Append(@, [origin |-> origin, data |-> chunk])]

\* this.manager.appendLog(this.id, text), called when the session has a manager.  The
\* TerminalManager of src/ defines no appendLog; the call is taken to write the text to
\* a log outside the state modelled here.
ManagerAppendLog(w, k, text) == w

\* _writeToLogAndBroadcast
WriteToLogAndBroadcast(w, k, text) ==
    IF text = <<>> THEN w
    ELSE LET w1 == IF w.sess[k].manager THEN ManagerAppendLog(w, k, text) ELSE w
         IN Broadcast(AppendHistory(w1, k, text, "session"), k,
                      [type |-> "output", data |-> text])

\* pty.write(data)
PtyWrite(w, k, data) == [w EXCEPT !.sess[k].pty.writes = Append(@, data)]

-----------------------------------------------------------------------------
(* TerminalSession: execution records *)

\* entry.input.includes('export PROMPT_COMMAND') || entry.command === '__bash_prompt'
ExportPromptCommandLit ==
    <<"e", "x", "p", "o", "r", "t", " ", "P", "R", "O", "M", "P", "T", "_",
      "C", "O", "M", "M", "A", "N", "D">>
BashPromptLit == <<"_", "_", "b", "a", "s", "h", "_", "p", "r", "o", "m", "p", "t">>

IsInternalCommand(entry) ==
    \/ entry.input # <<>> /\ Includes(entry.input, ExportPromptCommandLit)
    \/ entry.command = BashPromptLit

\* the executions array after push(record) and a pop at the cap
ExecutionsEvictNewest(executions, record) ==
    LET pushed == Append(executions, record)
    IN IF Len(pushed) > ExecutionsCap THEN SubSeq(pushed, 1, ExecutionsCap) ELSE pushed

\* the executions array after push(record) and the shift at the cap
ExecutionsAfterPush(executions, record) ==
    LET pushed == Append(executions, record)
    IN IF Len(pushed) > ExecutionsCap THEN Tail(pushed) ELSE pushed

\* saveSessionState of the manager: persistence.saveSession(session.id, ...) is called
\* and not awaited; it awaits init() before it writes the file
SaveSessionState(w, k) == [w EXCEPT !.sess[k].saving = @ + 1]

\* this.manager.saveSessionState(this) of a session that has a manager
SaveIfManaged(w, k) == IF w.sess[k].manager THEN SaveSessionState(w, k) ELSE w

\* _logCommandExecution without the filter of the shell's own commands
LogEveryCommandExecution(w, k, entry) ==
    LET record == [command |-> entry.command, exitCode |-> entry.exitCode,
                   input |-> entry.input, output |-> entry.output,
                   startedAt |-> entry.startedAt, completedAt |-> entry.completedAt,
                   duration |-> entry.completedAt - entry.startedAt]
    IN [w EXCEPT !.sess[k].executions = Append(@, record),
                 !.sess[k].pushes = @ + 1,
                 !.sess[k].pushLog = Append(@, Len(w.sess[k].emitLog))]

\* _logCommandExecution
LogCommandExecution(w, k, entry) ==
    IF IsInternalCommand(entry) THEN w
    ELSE
      LET record == [command |-> entry.command, exitCode |-> entry.exitCode,
                     input |-> entry.input, output |-> entry.output,
                     startedAt |-> entry.startedAt, completedAt |-> entry.completedAt,
                     duration |-> entry.completedAt - entry.startedAt]
      IN SaveIfManaged([w EXCEPT !.sess[k].executions = ExecutionsAfterPush(@, record),
                                 !.sess[k].pushes = @ + 1,
                                 !.sess[k].pushLog = Append(@, Len(w.sess[k].emitLog))], k)

\* _appendCapturedOutput
AppendCapturedOutput(w, k, text) ==
    IF text = <<>> THEN w
    ELSE [w EXCEPT !.sess[k].captureBuffer = @ \o text,
                   !.sess[k].captureStartedAt = IF @ = <<>> THEN <<w.now>> ELSE @]

\* a prompt marker that leaves the capture as it is
HandlePromptMarkerKeepsCapture(w, k) ==
    [w EXCEPT !.sess[k].markerLog = Append(@, "prompt")]

\* _handlePromptMarker
HandlePromptMarker(w, k) ==
    [w EXCEPT !.sess[k].captureBuffer = <<>>,
              !.sess[k].captureStartedAt = <<>>,
              !.sess[k].markerLog = Append(@, "prompt")]

\* _cleanCapturedText on both parts of a split
CleanSplit(split) ==
    [input |-> CleanCapturedText(split.input), output |-> CleanCapturedText(split.output)]

\* _postProcessExecutionEntry: the input and the output of the entry
PostProcessCapture(captureBuffer, command) ==
    CleanSplit(SplitInputOutput(SanitizeCapturedOutput(captureBuffer, command)))

\* the entry of _handleExitCodeSequence after _postProcessExecutionEntry
ProcessedEntry(command, exitCode, startedAt, completedAt, capture) ==
    [command |-> command, exitCode |-> exitCode,
     input |-> capture.input, output |-> capture.output,
     startedAt |-> startedAt, completedAt |-> completedAt]

\* the entry for a decoded command
EntryForCommand(s, exitCodeStr, command, completedAt) ==
    ProcessedEntry(command, ParseDigits(exitCodeStr),
                   IF s.captureStartedAt = <<>> THEN completedAt ELSE s.captureStartedAt[1],
                   completedAt, PostProcessCapture(s.captureBuffer, command))

ExecutionEntry(s, exitCodeStr, cmdB64, completedAt) ==
    EntryForCommand(s, exitCodeStr, DecodeCommandSafe(cmdB64), completedAt)

\* the end of _handleExitCodeSequence: lastExecution, the log, and the capture reset
RecordExecution(w, k, entry) ==
    [LogCommandExecution([w EXCEPT !.sess[k].lastExecution = <<entry>>,
                                   !.sess[k].markerLog = Append(@, "exit")], k, entry)
        EXCEPT !.sess[k].captureBuffer = <<>>,
               !.sess[k].captureStartedAt = <<>>]

\* _handleExitCodeSequence
HandleExitCodeSequence(w, k, exitCodeStr, cmdB64) ==
    IF w.sess[k].skipNextShellLog
    THEN [w EXCEPT !.sess[k].skipNextShellLog = FALSE,
                   !.sess[k].captureBuffer = <<>>,
                   !.sess[k].captureStartedAt = <<>>,
                   !.sess[k].markerLog = Append(@, "exit-skipped")]
    ELSE RecordExecution(w, k, ExecutionEntry(w.sess[k], exitCodeStr, cmdB64, w.now))


-----------------------------------------------------------------------------
(* TerminalSession: the OSC handler of the ANSI parser *)

\* new URL(text).pathname followed by decodeURIComponent, for a URL scheme://host/path
\* without percent escapes, query or fragment; <<>> when the text does not parse
\* (the URL constructor throws and the handler ignores it)
UrlPathname(text) ==
    LET sep == IndexOf(text, <<":", "/", "/">>, 0)
        schemeOk == /\ sep > 0
                    /\ \A i \in 1..sep : IsAlpha(text[i])
        rest == SliceFrom(text, sep + 3)
        slash == IndexOf(rest, <<"/">>, 0)
    IN IF ~schemeOk THEN <<>>
       ELSE IF slash < 0 THEN <<"/">>
       ELSE SliceFrom(rest, slash)

\* the meta message with the session's present title, cwd and PTY size, to every client
BroadcastMeta(w, k) ==
    Broadcast(w, k, MetaMessage(w.sess[k], w.sess[k].pty.cols, w.sess[k].pty.rows))

\* inst_o, OSC 0 and 2: the title
SetTitle(w, k, newTitle) ==
    IF newTitle # <<>> /\ newTitle # w.sess[k].title
    THEN BroadcastMeta([w EXCEPT !.sess[k].title = newTitle], k)
    ELSE w

\* inst_o, OSC 7: the working directory
SetCwd(w, k, newCwd) ==
    IF newCwd # <<>> /\ newCwd # w.sess[k].cwd
    THEN BroadcastMeta([w EXCEPT !.sess[k].cwd = newCwd], k)
    ELSE w

\* inst_o: the handler of a complete OSC string
InstO(w, k, body) ==
    IF StartsWith(body, <<"0", ";">>) \/ StartsWith(body, <<"2", ";">>)
    THEN SetTitle(w, k, SliceFrom(body, 2))
    ELSE IF StartsWith(body, <<"7", ";">>)
    THEN SetCwd(w, k, UrlPathname(SliceFrom(body, 2)))
    ELSE w

\* the end of an OSC string: the handler runs when the string is not empty
EndOsc(w, k, osc, nextState) ==
    [(IF osc # <<>> THEN InstO(w, k, osc) ELSE w)
        EXCEPT !.sess[k].ansiParser = [state |-> nextState, osc |-> <<>>]]

\* One character through the parser.  The states of the VT500 machine are kept as far
\* as they decide where an OSC string starts and ends: GROUND, ESCAPE,
\* ESCAPE_INTERMEDIATE, CSI (entry, param, intermediate and ignore), OSC_STRING, and
\* STRING (DCS, SOS, PM and APC, which last until the next ESC).
AnsiParserTo(w, k, state) == [w EXCEPT !.sess[k].ansiParser.state = state]

\* a character in the state OSC_STRING
AnsiParserOscStep(w, k, ch) ==
    IF ch = ESC \/ ch = BEL
    THEN EndOsc(w, k, w.sess[k].ansiParser.osc, IF ch = ESC THEN "ESCAPE" ELSE "GROUND")
    ELSE IF Code(ch) >= 32
    THEN [w EXCEPT !.sess[k].ansiParser.osc = Append(@, ch)]
    ELSE w

\* a character in another state
AnsiParserStep(w, k, ch) ==
    IF ch = ESC THEN AnsiParserTo(w, k, "ESCAPE")
    ELSE IF Code(ch) < 32 \/ ch = DEL THEN w
    ELSE AnsiParserTo(w, k,
           CASE w.sess[k].ansiParser.state = "ESCAPE" ->
                  IF ch = "[" THEN "CSI"
                  ELSE IF ch = "]" THEN "OSC_STRING"
                  ELSE IF ch \in {"P", "X", "^", "_"} THEN "STRING"
                  ELSE IF Code(ch) <= 47 THEN "ESCAPE_INTERMEDIATE"
                  ELSE "GROUND"
             [] w.sess[k].ansiParser.state = "ESCAPE_INTERMEDIATE" ->
                  IF Code(ch) <= 47 THEN "ESCAPE_INTERMEDIATE" ELSE "GROUND"
             [] w.sess[k].ansiParser.state = "CSI" ->
                  IF Code(ch) >= 64 /\ Code(ch) <= 126 THEN "GROUND" ELSE "CSI"
             [] OTHER -> w.sess[k].ansiParser.state)

\* ansiParser.parse(text)
RECURSIVE AnsiParserParse(_, _, _)
AnsiParserParse(w, k, text) ==
    IF text = <<>> THEN w
    ELSE IF w.sess[k].ansiParser.state = "OSC_STRING"
    THEN AnsiParserParse(AnsiParserOscStep(w, k, text[1]), k, Tail(text))
    ELSE AnsiParserParse(AnsiParserStep(w, k, text[1]), k, Tail(text))

-----------------------------------------------------------------------------
(* TerminalSession: PTY data and exit *)

\* The while loop of _handleData from lastIndex, and the tail after it: the state the
\* handlers leave, and the cleaned text
RECURSIVE ScanChunk(_, _, _, _, _)

\* the handler of a matched sequence
HandleSequence(w, k, match) ==
    IF match.kind = "exit"
    THEN HandleExitCodeSequence(w, k, match.exitCodeStr, match.cmdB64)
    ELSE HandlePromptMarker(w, k)

\* the body of the while loop for one match, and the tail when exec returns null
ScanMatch(w, k, chunk, lastIndex, cleaned, match) ==
    IF match.index < 0
    THEN [w |-> AppendCapturedOutput(w, k, SliceFrom(chunk, lastIndex)),
          cleaned |-> cleaned \o SliceFrom(chunk, lastIndex)]
    ELSE ScanChunk(HandleSequence(AppendCapturedOutput(w, k, Slice(chunk, lastIndex, match.index)),
                                  k, match),
                   k, chunk, match.end, cleaned \o Slice(chunk, lastIndex, match.index))

ScanChunk(w, k, chunk, lastIndex, cleaned) ==
    ScanMatch(w, k, chunk, lastIndex, cleaned, ExecOscRegex(chunk, lastIndex))

\* the end of _handleData: the cleaned text to the history, the parser and the clients
ForwardCleaned(w, k, cleaned) ==
    IF cleaned = <<>> THEN w
    ELSE Broadcast(AnsiParserParse(AppendHistory(w, k, cleaned, "pty"), k, cleaned), k,
                   [type |-> "output", data |-> cleaned])

ForwardScanned(scanned, k) == ForwardCleaned(scanned.w, k, scanned.cleaned)

\* the chunk as the PTY emitted it, markers included, in the place of the cleaned text
ForwardUncleaned(scanned, k, chunk) == ForwardCleaned(scanned.w, k, chunk)

\* the chunk the PTY emitted, recorded
ChunkEmitted(w, k, chunk) == [w EXCEPT !.sess[k].ptyChunks = Append(@, chunk)]

\* _handleData forwarding the chunk uncleaned
HandleDataUncleaned(w, k, chunk) ==
    IF w.sess[k].suppressPtyOutput THEN ChunkEmitted(w, k, chunk)
    ELSE ForwardUncleaned(ScanChunk(ChunkEmitted(w, k, chunk), k, chunk, 0, <<>>), k, chunk)

\* _handleData
HandleDataOp(w, k, chunk) ==
    IF w.sess[k].suppressPtyOutput THEN ChunkEmitted(w, k, chunk)
    ELSE ForwardScanned(
           ScanChunk(IF w.sess[k].manager
                     THEN ManagerAppendLog(ChunkEmitted(w, k, chunk), k, chunk)
                     ELSE ChunkEmitted(w, k, chunk),
                     k, chunk, 0, <<>>), k)

\* stopTitlePolling
StopTitlePolling(w, k) == [w EXCEPT !.sess[k].pollingInterval = FALSE]

\* remove the element at position i
RemoveAt(seq, i) == SubSeq(seq, 1, i - 1) \o SubSeq(seq, i + 1, Len(seq))

\* poll(): a call of the interval timer; it returns at once when the session is closed
PollOp(w, k) ==
    IF w.sess[k].closed THEN [w EXCEPT !.sess[k].pollsStarted = @ + 1]
    ELSE [w EXCEPT !.sess[k].polls = Append(@, [read |-> FALSE, cwd |-> <<>>]),
                   !.sess[k].pollsStarted = @ + 1]

\* poll(): the title and the environment have been probed, let newCwd = this.cwd
PollReadCwdOp(w, k, i) ==
    [w EXCEPT !.sess[k].polls[i] = [read |-> TRUE, cwd |-> w.sess[k].cwd]]

\* a failing poll that clears the interval timer
PollFailStopsPolling(w, k, i) ==
    [w EXCEPT !.sess[k].polls = RemoveAt(@, i),
              !.sess[k].pollsFailed = @ + 1,
              !.sess[k].pollingInterval = FALSE]

\* poll(): ps -o args= of the foreground process rejects, the catch of poll swallows it
PollFailOp(w, k, i) ==
    [w EXCEPT !.sess[k].polls = RemoveAt(@, i), !.sess[k].pollsFailed = @ + 1]

\* the end of poll() broadcasting the metadata whether it changed or not
PollFinishAlwaysBroadcast(w, k, i, newTitle, newEnv, cwdProbe) ==
    BroadcastMeta([w EXCEPT !.sess[k].polls = RemoveAt(@, i)], k)

\* poll() from the comparison on.  newTitle is the title derived from ps, newEnv the
\* environment (<<>> is null), cwdProbe the output of the cwd probe (<<>> when the probe
\* failed: newCwd is then the cwd read before it)
PollFinishOp(w, k, i, newTitle, newEnv, cwdProbe) ==
    LET s == w.sess[k]
        newCwd == IF cwdProbe = <<>> THEN s.polls[i].cwd ELSE cwdProbe[1]
        titleChanged == newTitle # <<>> /\ newTitle # s.title
        envChanged == newEnv # <<>> /\ newEnv[1] # s.env
        cwdChanged == newCwd # <<>> /\ newCwd # s.cwd
        w1 == [w EXCEPT !.sess[k].polls = RemoveAt(@, i)]
    IN IF titleChanged \/ envChanged \/ cwdChanged
       THEN BroadcastMeta([w1 EXCEPT !.sess[k].title = IF titleChanged THEN newTitle ELSE @,
                                    !.sess[k].env = IF envChanged THEN newEnv[1] ELSE @,
                                    !.sess[k].cwd = IF cwdChanged THEN newCwd ELSE @], k)
       ELSE w1

\* _handleExit broadcasting the status once per member of clients to every member
HandleExitBroadcastPerClient(w, k, exitCode, signal) ==
    LET message == [type |-> "status", status |-> "terminated",
                    code |-> exitCode, signal |-> signal]
        w1 == StopTitlePolling([w EXCEPT !.sess[k].closed = TRUE], k)
        w2 == Broadcast(w1, k, message)
    IN IF Cardinality(w.sess[k].clients) > 1 THEN Broadcast(w2, k, message) ELSE w2

\* _handleExit
HandleExitOp(w, k, exitCode, signal) ==
    LET w1 == StopTitlePolling([w EXCEPT !.sess[k].closed = TRUE], k)
    IN Broadcast(w1, k, [type |-> "status", status |-> "terminated",
                         code |-> exitCode, signal |-> signal])

-----------------------------------------------------------------------------
(* TerminalSession: attach and dispose *)

\* attach sending the meta message before the snapshot
AttachMetaFirst(w, k, c) ==
    LET s == w.sess[k]
        w1 == [w EXCEPT !.sess[k].clients = @ \cup {c}, !.sock[c].session = k]
        w2 == Send(w1, c, MetaMessage(s, s.pty.cols, s.pty.rows))
        w3 == Send(w2, c, [type |-> "snapshot", data |-> s.history])
    IN IF s.closed
       THEN Send(w3, c, [type |-> "status", status |-> "terminated"])
       ELSE Send(w3, c, [type |-> "status", status |-> "ready"])

\* attach replaying only the last PTY chunk instead of the history
AttachLastChunkOnly(w, k, c) ==
    LET s == w.sess[k]
        w1 == [w EXCEPT !.sess[k].clients = @ \cup {c}, !.sock[c].session = k]
        last == IF s.emitLog = <<>> THEN <<>> ELSE s.emitLog[Len(s.emitLog)].data
        w2 == Send(w1, c, [type |-> "snapshot", data |-> last])
        w3 == Send(w2, c, MetaMessage(s, s.pty.cols, s.pty.rows))
    IN IF s.closed
       THEN Send(w3, c, [type |-> "status", status |-> "terminated"])
       ELSE Send(w3, c, [type |-> "status", status |-> "ready"])

\* attach sending an empty snapshot
AttachEmptySnapshot(w, k, c) ==
    LET s == w.sess[k]
        w1 == [w EXCEPT !.sess[k].clients = @ \cup {c}, !.sock[c].session = k]
        w2 == Send(w1, c, [type |-> "snapshot", data |-> <<>>])
        w3 == Send(w2, c, MetaMessage(s, s.pty.cols, s.pty.rows))
    IN IF s.closed
       THEN Send(w3, c, [type |-> "status", status |-> "terminated"])
       ELSE Send(w3, c, [type |-> "status", status |-> "ready"])

\* attach
AttachOp(w, k, c) ==
    LET s == w.sess[k]
        w1 == [w EXCEPT !.sess[k].clients = @ \cup {c}, !.sock[c].session = k]
        w2 == Send(w1, c, [type |-> "snapshot", data |-> s.history])
        w3 == Send(w2, c, MetaMessage(s, s.pty.cols, s.pty.rows))
    IN IF s.closed
       THEN Send(w3, c, [type |-> "status", status |-> "terminated"])
       ELSE Send(w3, c, [type |-> "status", status |-> "ready"])

\* dispose leaving the data subscription in place
DisposeKeepsDataSubscription(w, k) ==
    LET w1 == StopTitlePolling(w, k)
    IN [w1 EXCEPT !.sess[k].clients = {},
                  !.sess[k].exitSubscription = FALSE]

\* dispose
DisposeOp(w, k) ==
    LET w1 == StopTitlePolling(w, k)
    IN [w1 EXCEPT !.sess[k].clients = {},
                  !.sess[k].dataSubscription = FALSE,
                  !.sess[k].exitSubscription = FALSE]

-----------------------------------------------------------------------------
(* TerminalSession: client input and the AI command *)

\* _handleAiCommand up to the await of alan.prompt
HandleAiCommandStart(w, k, prompt) ==
    LET w1 == [w EXCEPT !.sess[k].skipNextShellLog = TRUE]
        w2 == WriteToLogAndBroadcast(w1, k, <<CR, ESC, "[", "K", ESC, "[", "3", "6", "m">>)
    IN [w2 EXCEPT !.sess[k].aiInFlight = Append(@, [prompt |-> prompt, startTime |-> w.now, streamed |-> 0])]

\* the for loop of write(data) from index i, and the write that follows it
RECURSIVE WriteLoop(_, _, _, _, _)
WriteLoop(w, k, data, i, startIndex) ==
    IF i >= Len(data)
    THEN IF startIndex < Len(data) THEN PtyWrite(w, k, SliceFrom(data, startIndex)) ELSE w
    ELSE
      LET char == data[i + 1]
          line == TrimStart(w.sess[k].inputBuffer)
      IN IF char = CR
         THEN IF StartsWith(line, <<"#">>)
              THEN LET w1 == IF i > startIndex
                             THEN PtyWrite(w, k, Slice(data, startIndex, i)) ELSE w
                       prompt == Trim(SliceFrom(line, 1))
                       w2 == PtyWrite([w1 EXCEPT !.sess[k].inputBuffer = <<>>], k, <<NAK>>)
                       w3 == [w2 EXCEPT !.sess[k].suppressPtyOutput = TRUE]
                       w4 == WriteToLogAndBroadcast(w3, k, <<CR, LF, CR, ESC, "[", "K">>)
                       w5 == HandleAiCommandStart(w4, k, prompt)
                   IN WriteLoop(w5, k, data, i + 1, i + 1)
              ELSE WriteLoop([w EXCEPT !.sess[k].inputBuffer = <<>>], k, data, i + 1, startIndex)
         ELSE IF char = DEL \/ char = BS
         THEN WriteLoop([w EXCEPT !.sess[k].inputBuffer =
                            IF @ # <<>> THEN SubSeq(@, 1, Len(@) - 1) ELSE @],
                        k, data, i + 1, startIndex)
         ELSE IF Code(char) < 32 /\ char # TAB
         THEN WriteLoop([w EXCEPT !.sess[k].inputBuffer = <<>>], k, data, i + 1, startIndex)
         ELSE WriteLoop([w EXCEPT !.sess[k].inputBuffer = Append(@, char)],
                        k, data, i + 1, startIndex)

\* write, for a string
WriteOp(w, k, data) == WriteLoop(w, k, data, 0, 0)

\* _handleInput, for a string
HandleInput(w, k, data) ==
    IF w.sess[k].closed THEN w ELSE WriteOp(w, k, data)

\* text.replace(/\n/g, '\r\n')
RECURSIVE LfToCrLf(_)
LfToCrLf(text) ==
    IF text = <<>> THEN <<>>
    ELSE (IF text[1] = LF THEN <<CR, LF>> ELSE <<text[1]>>) \o LfToCrLf(Tail(text))

\* streamCallback of _handleAiCommand
AiStreamOp(w, k, text) ==
    IF text = <<>> THEN w ELSE WriteToLogAndBroadcast(w, k, LfToCrLf(text))

\* the end of _handleAiCommand without "Resume PTY output"
AiResumeKeepsSuppressed(w, k) == PtyWrite(w, k, <<CR>>)

\* the end of _handleAiCommand: "Resume PTY output" and the write that restores the prompt
AiResume(w, k) ==
    PtyWrite([w EXCEPT !.sess[k].suppressPtyOutput = FALSE], k, <<CR>>)


\* _handleAiCommand after alan.prompt resolved with result.text = text
AiResolveOp(w, k, i, text) ==
    LET job == w.sess[k].aiInFlight[i]
        w1 == WriteToLogAndBroadcast(w, k, <<ESC, "[", "0", "m", CR, LF>>)
        w2 == LogCommandExecution(w1, k,
                [command |-> <<"a", "i">>, exitCode |-> 0, input |-> job.prompt,
                 output |-> text, startedAt |-> job.startTime, completedAt |-> w.now])
    IN AiResume([w2 EXCEPT !.sess[k].aiInFlight = RemoveAt(@, i)], k)

AiErrorLit == <<"A", "I", " ", "E", "r", "r", "o", "r", ":", " ">>

\* _handleAiCommand after alan.prompt rejected with e.message = message
AiRejectOp(w, k, i, message) ==
    LET job == w.sess[k].aiInFlight[i]
        w1 == WriteToLogAndBroadcast(w, k,
                <<ESC, "[", "3", "1", "m">> \o AiErrorLit \o message
                    \o <<ESC, "[", "0", "m", CR, LF>>)
        w2 == LogCommandExecution(w1, k,
                [command |-> <<"a", "i">>, exitCode |-> 1, input |-> job.prompt,
                 output |-> AiErrorLit \o message,
                 startedAt |-> job.startTime, completedAt |-> w.now])
    IN AiResume([w2 EXCEPT !.sess[k].aiInFlight = RemoveAt(@, i)], k)


-----------------------------------------------------------------------------
(* TerminalSession: the messages of a client *)

\* JavaScript values of the properties of a payload: undefined (also the value of a
\* property the object does not have), null, a string, an integer number n, and the
\* number n + 1/2 (n >= 0)
JsValue(t, s, n, half) == [t |-> t, s |-> s, n |-> n, half |-> half]
Undefined == JsValue("undefined", <<>>, 0, FALSE)
Null == JsValue("null", <<>>, 0, FALSE)
Str(s) == JsValue("string", s, 0, FALSE)
Num(n) == JsValue("number", <<>>, n, FALSE)
NumAndHalf(n) == JsValue("number", <<>>, n, TRUE)

\* Number.parseInt(text, 10) of a string: leading white space, an optional sign, and
\* the longest run of digits; <<>> is NaN, <<n>> the number n
ParseIntText(text) ==
    LET body == TrimStart(text)
        signed == body # <<>> /\ body[1] \in {"+", "-"}
        digits == IF signed THEN Tail(body) ELSE body
        run == RunEnd(digits, 0, "\\d")
    IN IF run = 0 THEN <<>>
       ELSE IF signed /\ body[1] = "-" THEN << 0 - ParseDigits(Slice(digits, 0, run)) >>
       ELSE << ParseDigits(Slice(digits, 0, run)) >>

\* Number.parseInt(value, 10): the value is converted to a string first, so a number
\* loses its fraction and undefined and null give NaN
ParseInt(value) ==
    CASE value.t = "number" -> <<value.n>>
      [] value.t = "string" -> ParseIntText(value.s)
      [] OTHER -> <<>>

MaxDimension == 500

\* clampDimension without the test num <= 0
ClampWithoutSignTest(value) ==
    LET num == ParseInt(value)
    IN IF num = <<>> THEN <<>>
       ELSE << IF num[1] < MaxDimension THEN num[1] ELSE MaxDimension >>

\* clampDimension returning null for a number above the maximum
ClampRejectsAboveMax(value) ==
    LET num == ParseInt(value)
    IN IF num = <<>> \/ num[1] <= 0 \/ num[1] > MaxDimension THEN <<>> ELSE num

\* clampDimension: <<>> is null
clampDimension(value) ==
    LET num == ParseInt(value)
    IN IF num = <<>> \/ num[1] <= 0 THEN <<>>
       ELSE << IF num[1] < MaxDimension THEN num[1] ELSE MaxDimension >>

\* pty.resize(cols, rows)
PtyResize(w, k, cols, rows) ==
    [w EXCEPT !.sess[k].pty.cols = cols,
              !.sess[k].pty.rows = rows,
              !.sess[k].pty.resizes = Append(@, <<cols, rows>>)]

\* resize
ResizeOp(w, k, cols, rows) ==
    IF w.sess[k].closed THEN w
    ELSE SaveIfManaged(Broadcast(PtyResize(w, k, cols, rows), k,
                                 MetaMessage(w.sess[k], cols, rows)), k)

\* the end of _handleResize, for the clamped dimensions
ResizeClamped(w, k, safeCols, safeRows) ==
    IF safeCols # <<>> /\ safeRows # <<>> THEN ResizeOp(w, k, safeCols[1], safeRows[1]) ELSE w

\* _handleResize
HandleResize(w, k, cols, rows) ==
    IF w.sess[k].closed THEN w
    ELSE ResizeClamped(w, k, clampDimension(cols), clampDimension(rows))

\* _handleInput without the test of closed
HandleInputWhenClosed(w, k, data) ==
    IF data.t # "string" THEN w ELSE WriteOp(w, k, data.s)

\* _handleInput
HandleInputValue(w, k, data) ==
    IF w.sess[k].closed \/ data.t # "string" THEN w ELSE WriteOp(w, k, data.s)

InputLit == <<"i", "n", "p", "u", "t">>
ResizeLit == <<"r", "e", "s", "i", "z", "e">>
PingLit == <<"p", "i", "n", "g">>

\* the switch of _routeIncoming answering a ping with a broadcast
RoutePongToAll(w, k, c, payload) ==
    IF payload.type.t # "string" THEN w
    ELSE CASE payload.type.s = InputLit -> HandleInputValue(w, k, payload.data)
           [] payload.type.s = ResizeLit -> HandleResize(w, k, payload.cols, payload.rows)
           [] payload.type.s = PingLit -> Broadcast(w, k, [type |-> "pong"])
           [] OTHER -> w

\* the switch of _routeIncoming on payload.type
RouteType(w, k, c, payload) ==
    IF payload.type.t # "string" THEN w
    ELSE CASE payload.type.s = InputLit -> HandleInputValue(w, k, payload.data)
           [] payload.type.s = ResizeLit -> HandleResize(w, k, payload.cols, payload.rows)
           [] payload.type.s = PingLit -> Send(w, c, [type |-> "pong"])
           [] OTHER -> w

\* _routeIncoming(raw, ws) for the value JSON.parse gives, or its throw: reading
\* payload.type of null throws a TypeError, of a number, a string or an array gives
\* undefined
RouteIncoming(w, k, c, frame) ==
    CASE frame.json = "invalid" -> w
      [] frame.json = "null" -> [w EXCEPT !.threw = TRUE]
      [] frame.json = "object" -> RouteType(w, k, c, frame)
      [] OTHER -> w

-----------------------------------------------------------------------------
(* Bounds and inputs *)

NumClients == 2
MaxHistoryLimit == 3
MaxChunks == 2
MaxWrites == 1
MaxAiStream == 1
MaxClock == 1

Clients == 1..NumClients

\* options.historyLimit: 0 is raised to 1 by Math.max(1, ...)
HistoryLimitOptions == {0, MaxHistoryLimit}

\* the exit marker the shell integration prints for an exit status and an encoded command
ExitMarker(exitCodeStr, cmdB64) ==
    OscPrefix \o ExitCodeLit \o exitCodeStr \o CommandB64Lit \o cmdB64 \o <<BEL>>

LsB64 == <<"b", "H", "M", "=">>     \* base64 of "ls"

\* PTY chunks of the session specification: plain text shorter and longer than the
\* history limits
SessionChunks ==
    { <<"a">>,
      <<"b", "c", "d", "e">> }

\* the data of client input messages: a shell command line and an AI command line
SessionInputs == { <<"l", "s", CR>>, <<"#", "h", "i", CR>> }

AiTexts == { <<"o", "k", LF>> }
AiErrors == { <<"n", "o">> }

ExitDetails == { [exitCode |-> 0, signal |-> "null"], [exitCode |-> 1, signal |-> "SIGHUP"] }

EmptyMap == [x \in {} |-> 0]

-----------------------------------------------------------------------------
(* Events of one session *)

Live(k) == k \in DOMAIN sess

\* the PTY emits a chunk: pty.onData handlers run
PtyData(k, chunk) ==
    /\ Live(k)
    /\ sess[k].pty.alive
    /\ sess[k].dataSubscription
    /\ Len(sess[k].ptyChunks) < MaxChunks
    /\ Commit(HandleDataOp(World, k, chunk))

\* a client connects: wss.on('connection') attaches the socket to the session
SocketAttach(k, c) ==
    /\ Live(k)
    /\ sock[c].readyState = 0
    /\ Commit(AttachOp([World EXCEPT !.sock[c].readyState = WS_STATE_OPEN,
                                     !.sock[c].isAlive = TRUE], k, c))

\* the closing handshake of a socket starts: readyState is CLOSING (2), the close
\* event has not been emitted yet
SocketClosing(c) ==
    /\ sock[c].readyState = WS_STATE_OPEN
    /\ sock' = [sock EXCEPT ![c].readyState = 2]
    /\ UNCHANGED <<sess, sessions, lastCols, lastRows, disposing, now, threw>>

\* a socket closes: the once('close') listener of attach removes it from clients
SocketClosed(c) ==
    /\ sock[c].readyState \in {WS_STATE_OPEN, 2}
    /\ sock' = [sock EXCEPT ![c].readyState = WS_STATE_CLOSED]
    /\ sess' = [k \in DOMAIN sess |->
                  IF sock[c].session = k THEN [sess[k] EXCEPT !.clients = @ \ {c}]
                  ELSE sess[k]]
    /\ UNCHANGED <<sessions, lastCols, lastRows, disposing, now, threw>>

\* a client sends {type: 'input', data}: _routeIncoming, _handleInput
ClientInput(c, data) ==
    /\ sock[c].readyState = WS_STATE_OPEN
    /\ sock[c].session # 0
    /\ Len(sess[sock[c].session].pty.writes) < MaxWrites
    /\ Commit(HandleInput(World, sock[c].session, data))

\* alan.prompt calls the stream callback of an AI command in flight
AiStream(k, i, text) ==
    /\ Live(k)
    /\ i \in DOMAIN sess[k].aiInFlight
    /\ sess[k].aiInFlight[i].streamed < MaxAiStream
    /\ Commit(AiStreamOp([World EXCEPT !.sess[k].aiInFlight[i].streamed = @ + 1], k, text))

\* alan.prompt resolves
AiResolve(k, i, text) ==
    /\ Live(k)
    /\ i \in DOMAIN sess[k].aiInFlight
    /\ Commit(AiResolveOp(World, k, i, text))

\* alan.prompt rejects
AiReject(k, i, message) ==
    /\ Live(k)
    /\ i \in DOMAIN sess[k].aiInFlight
    /\ Commit(AiRejectOp(World, k, i, message))

\* time passes
Tick ==
    /\ now < MaxClock
    /\ now' = now + 1
    /\ UNCHANGED <<sess, sock, sessions, lastCols, lastRows, disposing, threw>>


-----------------------------------------------------------------------------
(* TerminalManager *)

MaxSessions == 3
InitialCols == 120
InitialRows == 30
\* the module constant historyLimit of the manager, as TABMINAL_HISTORY sets it
ManagerHistoryLimit == 4

SessionIds == 1..MaxSessions

ShellTitle == <<"b", "a", "s", "h">>    \* the basename of the shell
InitialCwd == <<"/">>
EnvText == "HOME=/"

\* crypto.randomUUID(): an id that no session has had
FreshIds(w) == SessionIds \ {w.sess[j].id : j \in DOMAIN w.sess}

RegisteredSessions(w) == {w.sessions[id] : id \in DOMAIN w.sessions}

\* createSession() registering a session although pty.spawn threw
CreateSessionDespiteThrow(w, id, spawnOk) ==
    LET k == Len(w.sess) + 1
        session == NewSession(id, TRUE, ShellTitle, InitialCwd, EnvText,
                              ManagerHistoryLimit, <<>>, NewPty(w.lastCols, w.lastRows))
    IN [w EXCEPT !.sess = Append(@, [session EXCEPT !.initFile = TRUE, !.saving = 1]),
                 !.sessions = (id :> k) @@ @,
                 !.threw = ~spawnOk]

\* createSession() with the id that randomUUID returns; pty.spawn either returns a
\* PTY or throws, and a throw leaves createSession before it touches the registry
CreateSessionOp(w, id, spawnOk) ==
    IF ~spawnOk THEN [w EXCEPT !.threw = TRUE]
    ELSE
      LET k == Len(w.sess) + 1
          session == NewSession(id, TRUE, ShellTitle, InitialCwd, EnvText,
                                ManagerHistoryLimit, <<>>, NewPty(w.lastCols, w.lastRows))
      IN [w EXCEPT !.sess = Append(@, [session EXCEPT !.initFile = TRUE, !.saving = 1]),
                   !.sessions = (id :> k) @@ @]

\* persistence.deleteSession(id), called and not awaited, for the session at k
PersistenceDelete(w, k) == [w EXCEPT !.sess[k].unlinking = @ + 1]

\* removeSession(id) leaving the registry empty when the last session is removed
RemoveSessionNoRespawn(w, id, newId, spawnOk) ==
    IF id \notin DOMAIN w.sessions THEN w
    ELSE [PersistenceDelete(DisposeOp(w, w.sessions[id]), w.sessions[id])
            EXCEPT !.sessions = [x \in (DOMAIN @) \ {id} |-> @[x]]]

\* removeSession(id); newId and spawnOk are what randomUUID and pty.spawn return
\* when the last session is replaced
RemoveSessionOp(w, id, newId, spawnOk) ==
    IF id \notin DOMAIN w.sessions THEN w
    ELSE
      LET w1 == DisposeOp(w, w.sessions[id])
          w2 == PersistenceDelete([w1 EXCEPT !.sessions = [x \in (DOMAIN @) \ {id} |-> @[x]]],
                                  w.sessions[id])
      IN IF DOMAIN w2.sessions = {} /\ ~w2.disposing
         THEN CreateSessionOp(w2, newId, spawnOk)
         ELSE w2

\* ensureOneSession
EnsureOneSessionOp(w, id, spawnOk) ==
    IF DOMAIN w.sessions = {} THEN CreateSessionOp(w, id, spawnOk) ELSE w

\* dispose of the manager without the pty.kill calls
ManagerDisposeNoSignal(w) ==
    [w EXCEPT !.disposing = TRUE, !.sessions = EmptyMap]

\* dispose of the manager
ManagerDisposeOp(w) ==
    [w EXCEPT !.disposing = TRUE,
              !.sess = [k \in DOMAIN @ |->
                          IF k \in RegisteredSessions(w)
                          THEN [@[k] EXCEPT !.pty.kills = Append(@, "SIGHUP")]
                          ELSE @[k]],
              !.sessions = EmptyMap]

\* the end of the onExit handler of createSession: the init script of the shell is
\* unlinked, unless removeSession threw
CleanupInitFile(w, k) ==
    IF w.threw THEN w ELSE [w EXCEPT !.sess[k].initFile = FALSE]

\* The exit event of a PTY with the handler of createSession running first: dispose
\* has unsubscribed _handleExit of the session by the time its turn comes
PtyExitRemoveFirst(w, k, details, newId, spawnOk) ==
    LET w0 == [w EXCEPT !.sess[k].pty.alive = FALSE, !.sess[k].pty.exit = <<details>>]
        w1 == IF w.sess[k].manager
              THEN RemoveSessionOp(w0, w.sess[k].id, newId, spawnOk)
              ELSE w0
    IN IF w1.sess[k].exitSubscription
       THEN HandleExitOp(w1, k, details.exitCode, details.signal)
       ELSE w1

\* The exit event of a PTY: the handlers registered with pty.onExit run in the order
\* of their registration, _handleExit of the session (unless dispose removed it), then
\* the handler that createSession registered
PtyExitOp(w, k, details, newId, spawnOk) ==
    LET w0 == [w EXCEPT !.sess[k].pty.alive = FALSE, !.sess[k].pty.exit = <<details>>]
        w1 == IF w.sess[k].exitSubscription
              THEN HandleExitOp(w0, k, details.exitCode, details.signal)
              ELSE w0
    IN IF w.sess[k].manager
       THEN CleanupInitFile(RemoveSessionOp(w1, w.sess[k].id, newId, spawnOk), k)
       ELSE w1

\* removeSession(id) would call createSession: id is the only session of the registry
\* and the manager is not disposing
RespawnNeeded(id) == DOMAIN sessions = {id} /\ ~disposing

\* what randomUUID and pty.spawn return to an operation: an id no session has had, and
\* a PTY or a throw; one fixed pair when the operation calls neither
SpawnResults(needed) ==
    IF needed THEN FreshIds(World) \X BOOLEAN ELSE {<<1, TRUE>>}

\* the PTY process of a session exits
PtyExit(k, details) ==
    /\ Live(k)
    /\ sess[k].pty.alive
    /\ \E r \in SpawnResults(sess[k].manager /\ RespawnNeeded(sess[k].id)) :
          Commit(PtyExitOp(World, k, details, r[1], r[2]))

\* resizeAll: the loop over this.sessions.values(), in the order of insertion, from the
\* session at position k
RECURSIVE ResizeSessionsFrom(_, _, _, _)
ResizeSessionsFrom(w, k, cols, rows) ==
    IF k > Len(w.sess) THEN w
    ELSE ResizeSessionsFrom(IF k \in RegisteredSessions(w) THEN ResizeOp(w, k, cols, rows)
                            ELSE w,
                            k + 1, cols, rows)

\* POST /api/sessions
PostSession ==
    \E id \in FreshIds(World), spawnOk \in BOOLEAN :
        Commit(CreateSessionOp(World, id, spawnOk))

\* DELETE /api/sessions/:id
DeleteSession(id) ==
    \E r \in SpawnResults(RespawnNeeded(id)) :
        Commit(RemoveSessionOp(World, id, r[1], r[2]))

\* resizeAll(cols, rows) without the update of the default geometry
ResizeAllKeepsDefault(w, cols, rows) == ResizeSessionsFrom(w, 1, cols, rows)

\* resizeAll(cols, rows)
ResizeAllOp(w, cols, rows) ==
    ResizeSessionsFrom([w EXCEPT !.lastCols = cols, !.lastRows = rows], 1, cols, rows)

\* shutdown: terminalManager.dispose()
ManagerDispose ==
    /\ ~disposing
    /\ Commit(ManagerDisposeOp(World))

\* WS /ws/:id: the upgrade handler looks the session up and wss.on('connection') attaches
SocketConnect(id, c) ==
    /\ id \in DOMAIN sessions
    /\ SocketAttach(sessions[id], c)

-----------------------------------------------------------------------------
(* Specifications *)

NoManager ==
    /\ sessions = EmptyMap
    /\ lastCols = InitialCols
    /\ lastRows = InitialRows
    /\ disposing = FALSE
    /\ threw = FALSE

\* One session constructed as the unit tests construct it, around a PTY of 80 by 24,
\* without a manager
Init ==
    /\ \E limit \in HistoryLimitOptions :
          sess = << NewSession(0, FALSE, <<"T", "e", "r", "m", "i", "n", "a", "l">>, <<>>,
                               "", limit, <<>>, NewPty(80, 24)) >>
    /\ sock = [c \in Clients |-> NewSocket]
    /\ now = 0
    /\ NoManager

Next ==
    \/ \E chunk \in SessionChunks : PtyData(1, chunk)
    \/ \E details \in ExitDetails : PtyExit(1, details)
    \/ \E c \in Clients : SocketAttach(1, c)
    \/ \E c \in Clients : SocketClosing(c)
    \/ \E c \in Clients : SocketClosed(c)
    \/ \E c \in Clients, data \in SessionInputs : ClientInput(c, data)
    \/ \E i \in 1..MaxWrites, text \in AiTexts : AiStream(1, i, text)
    \/ \E i \in 1..MaxWrites, text \in AiTexts : AiResolve(1, i, text)
    \/ \E i \in 1..MaxWrites, message \in AiErrors : AiReject(1, i, message)

Spec == Init /\ [][Next]_vars


-----------------------------------------------------------------------------
(* The marker stream of one session *)

MaxStreamChunks == 3
StreamClients == {1}

ExitMarkerLs == ExitMarker(<<"0">>, LsB64)
SplitPoint == 20

\* base64 of "__bash_prompt"
BashPromptB64 ==
    <<"X", "1", "9", "i", "Y", "X", "N", "o", "X", "3", "B", "y", "b", "2", "1", "w",
      "d", "A", "=", "=">>

PromptChunk == <<"$", " ">> \o PROMPT_MARKER
LsChunk == <<"l", "s", LF, "f", LF>> \o ExitMarkerLs
\* an exit marker cut in two by the PTY read
SplitHeadChunk == Slice(ExitMarkerLs, 0, SplitPoint)
SplitTailChunk == SliceFrom(ExitMarkerLs, SplitPoint)
\* a title sequence, a prompt marker and a 1337 sequence that is not tabminal's
MixedChunk ==
    <<ESC, "]", "0", ";", "t", BEL>> \o PROMPT_MARKER
        \o OscPrefix \o <<"C", "u", "r", "r", "e", "n", "t", "D", "i", "r", "=", "/", BEL>>
OnlyMarkersChunk == ExitMarkerLs \o PROMPT_MARKER
\* the exit marker of the shell's own prompt command
InternalChunk == ExitMarker(<<"0">>, BashPromptB64)

\* text before a prompt marker, a command between the prompt marker and its exit marker,
\* and text after the exit marker
SpansChunk == <<"a">> \o PROMPT_MARKER \o <<"l", "s", LF, "f", LF>> \o ExitMarkerLs \o <<"b">>

StreamChunks ==
    { PromptChunk, LsChunk, SplitHeadChunk, SplitTailChunk, MixedChunk, OnlyMarkersChunk,
      InternalChunk, SpansChunk }

\* the PTY emits a chunk of the marker stream
PtyStream(k, chunk) ==
    /\ Live(k)
    /\ sess[k].pty.alive
    /\ sess[k].dataSubscription
    /\ Len(sess[k].ptyChunks) < MaxStreamChunks
    /\ Commit(HandleDataOp(World, k, chunk))

\* One session constructed without options around a PTY of 80 by 24: the history limit
\* is DEFAULT_HISTORY_LIMIT
InitStream ==
    /\ sess = << NewSession(0, FALSE, <<"T", "e", "r", "m", "i", "n", "a", "l">>, <<>>,
                            "", DEFAULT_HISTORY_LIMIT, <<>>, NewPty(80, 24)) >>
    /\ sock = [c \in Clients |-> NewSocket]
    /\ now = 0
    /\ NoManager

NextStream ==
    \/ \E chunk \in StreamChunks : PtyStream(1, chunk)
    \/ \E c \in StreamClients : SocketAttach(1, c)
    \/ \E c \in StreamClients : ClientInput(c, <<"#", "h", "i", CR>>)
    \/ \E i \in 1..MaxWrites, text \in AiTexts : AiResolve(1, i, text)
    \/ Tick

SpecStream == InitStream /\ [][NextStream]_vars

-----------------------------------------------------------------------------
(* The execution log of a restored session *)

\* the i-th record of a saved session state
RestoredRecord(i) ==
    [command |-> <<"o", "l", "d">>, exitCode |-> i, input |-> <<>>, output |-> <<>>,
     startedAt |-> 0, completedAt |-> 0, duration |-> 0]

\* options.executions: the executions of a saved session state, which saveSessionState
\* wrote from the executions of a session
RestoredExecutions(n) == [i \in 1..n |-> RestoredRecord(i)]

RestoredLengths == {0, ExecutionsCap - 1, ExecutionsCap}

\* chunks with one and with two exit markers
ExecChunks == { LsChunk, LsChunk \o ExitMarkerLs }

InitExec ==
    /\ \E n \in RestoredLengths :
          sess = << NewSession(0, FALSE, <<"T", "e", "r", "m", "i", "n", "a", "l">>, <<>>,
                               "", DEFAULT_HISTORY_LIMIT, RestoredExecutions(n),
                               NewPty(80, 24)) >>
    /\ sock = [c \in Clients |-> NewSocket]
    /\ now = 0
    /\ NoManager

NextExec ==
    \/ \E chunk \in ExecChunks : PtyStream(1, chunk)
    \/ \E c \in StreamClients : SocketAttach(1, c)
    \/ \E c \in StreamClients : ClientInput(c, <<"#", "h", "i", CR>>)
    \/ \E i \in 1..MaxWrites, text \in AiTexts : AiResolve(1, i, text)
    \/ \E i \in 1..MaxWrites, message \in AiErrors : AiReject(1, i, message)
    \/ Tick

SpecExec == InitExec /\ [][NextExec]_vars

-----------------------------------------------------------------------------
(* The registry of the server *)

\* new TerminalManager(), with no socket connected yet
ManagerConstructed ==
    [sess |-> <<>>, sock |-> [c \in Clients |-> NewSocket], sessions |-> EmptyMap,
     lastCols |-> InitialCols, lastRows |-> InitialRows, disposing |-> FALSE, now |-> 0,
     threw |-> FALSE]

\* the server after startup: terminalManager.ensureOneSession(), whose createSession got
\* the id 1 and a PTY
ServerStarted == EnsureOneSessionOp(ManagerConstructed, 1, TRUE)

InitRegistry ==
    /\ sess = ServerStarted.sess
    /\ sessions = ServerStarted.sessions
    /\ sock = ServerStarted.sock
    /\ lastCols = ServerStarted.lastCols
    /\ lastRows = ServerStarted.lastRows
    /\ disposing = ServerStarted.disposing
    /\ threw = ServerStarted.threw
    /\ now = ServerStarted.now

NextRegistry ==
    \/ PostSession
    \/ \E id \in SessionIds : DeleteSession(id)
    \/ \E k \in SessionIds, details \in ExitDetails : PtyExit(k, details)
    \/ ManagerDispose
    \/ \E id \in SessionIds, c \in Clients : SocketConnect(id, c)
    \/ \E c \in Clients : SocketClosed(c)

SpecRegistry == InitRegistry /\ [][NextRegistry]_vars

-----------------------------------------------------------------------------
(* The messages of the clients of one session *)

MaxFrames == 2

\* what JSON.parse gives for a frame: "invalid" is a text that is not JSON, "object" an
\* object with the four properties the session reads
Frame(json, type, data, cols, rows) ==
    [json |-> json, type |-> type, data |-> data, cols |-> cols, rows |-> rows]

\* 'not json', 'null', '42', '"text"', '[]'
NonObjectFrames ==
    { Frame(json, Undefined, Undefined, Undefined, Undefined) :
        json \in {"invalid", "null", "number", "string", "array"} }

\* {}, {type: 'bogus'}, {type: 1}, {type: 'input'}, {type: 'input', data: 5},
\* {type: 'input', data: null}
UntypedFrames ==
    { Frame("object", Undefined, Undefined, Undefined, Undefined),
      Frame("object", Str(<<"b", "o", "g", "u", "s">>), Str(<<"l", "s", CR>>), Num(200), Num(40)),
      Frame("object", Num(1), Undefined, Undefined, Undefined),
      Frame("object", Str(InputLit), Undefined, Undefined, Undefined),
      Frame("object", Str(InputLit), Num(5), Undefined, Undefined),
      Frame("object", Str(InputLit), Null, Undefined, Undefined) }

\* the data of the input messages: a command line, an empty string, the start of an AI
\* command line and the Enter that ends it, and three lines of which the second is an
\* AI command line
RouteInputs ==
    { <<"l", "s", CR>>, <<>>, <<"#", "a">>, <<CR>>, <<"x", CR, "#", "a", CR, "b">> }

InputFrame(data) == Frame("object", Str(InputLit), Str(data), Undefined, Undefined)

InputFrames == { InputFrame(data) : data \in RouteInputs }

ResizeFrame(cols, rows) == Frame("object", Str(ResizeLit), Undefined, cols, rows)

\* the dimensions of the resize messages: cols -5 and rows 'bad', 0, missing, null,
\* 200 x 40, 600 and 12.5, '80' and '24abc', rows -1
ResizeDimensions ==
    { <<Num(0 - 5), Str(<<"b", "a", "d">>)>>,
      <<Num(0), Num(40)>>,
      <<Undefined, Num(40)>>,
      <<Num(200), Null>>,
      <<Num(200), Num(0 - 1)>>,
      <<Num(200), Num(40)>>,
      <<Num(600), Num(40)>>,
      <<Num(200), NumAndHalf(12)>>,
      <<Str(<<"8", "0">>), Str(<<"2", "4", "a", "b", "c">>)>> }

ResizeFrames == { ResizeFrame(d[1], d[2]) : d \in ResizeDimensions }

PingFrame == Frame("object", Str(PingLit), Undefined, Undefined, Undefined)

RouteFrames == NonObjectFrames \cup UntypedFrames \cup InputFrames \cup ResizeFrames \cup {PingFrame}

\* the number of frames the clients have sent
RECURSIVE FramesReceived(_)
FramesReceived(cs) ==
    IF cs = {} THEN 0
    ELSE LET c == CHOOSE x \in cs : TRUE
         IN Len(sock[c].received) + FramesReceived(cs \ {c})

\* ws.on('message', (raw) => this._routeIncoming(raw, ws)) of attach
ClientMessage(c, frame) ==
    /\ sock[c].readyState = WS_STATE_OPEN
    /\ sock[c].session # 0
    /\ FramesReceived(DOMAIN sock) < MaxFrames
    /\ Commit(RouteIncoming([World EXCEPT !.sock[c].received = Append(@, frame)],
                            sock[c].session, c, frame))

InitRoute ==
    /\ sess = << NewSession(0, FALSE, <<"T", "e", "r", "m", "i", "n", "a", "l">>, <<>>,
                            "", DEFAULT_HISTORY_LIMIT, <<>>, NewPty(80, 24)) >>
    /\ sock = [c \in Clients |-> NewSocket]
    /\ now = 0
    /\ NoManager

NextRoute ==
    \/ \E c \in Clients : SocketAttach(1, c)
    \/ \E c \in Clients, frame \in RouteFrames : ClientMessage(c, frame)
    \/ \E details \in ExitDetails : PtyExit(1, details)

SpecRoute == InitRoute /\ [][NextRoute]_vars

-----------------------------------------------------------------------------
(* The resize messages of the clients of a registry *)

NextResize ==
    \/ PostSession
    \/ \E id \in SessionIds, c \in Clients : SocketConnect(id, c)
    \/ \E c \in Clients, frame \in ResizeFrames : ClientMessage(c, frame)
    \/ \E k \in SessionIds, details \in ExitDetails : PtyExit(k, details)

SpecResize == InitRegistry /\ [][NextResize]_vars

-----------------------------------------------------------------------------
(* Sessions of a registry after their dispose *)

\* the data event of a PTY: the listeners that are still subscribed run, which is
\* _handleData of the session unless dispose has unsubscribed it
PtyDataEvent(w, k, chunk) ==
    IF w.sess[k].dataSubscription THEN HandleDataOp(w, k, chunk) ELSE ChunkEmitted(w, k, chunk)

MaxEmits == 1

\* the PTY of a session emits a chunk, whether or not the session still listens
PtyEmit(k, chunk) ==
    /\ Live(k)
    /\ sess[k].pty.alive
    /\ Len(sess[k].ptyChunks) < MaxEmits
    /\ Commit(PtyDataEvent(World, k, chunk))

\* an input message and a resize message
DisposeFrames == { InputFrame(<<"l", "s", CR>>), ResizeFrame(Num(200), Num(40)) }

NextDispose ==
    \/ \E id \in SessionIds, c \in Clients : SocketConnect(id, c)
    \/ \E id \in SessionIds : DeleteSession(id)
    \/ \E k \in SessionIds : PtyEmit(k, <<"a">>)
    \/ \E k \in SessionIds : PtyExit(k, [exitCode |-> 0, signal |-> "null"])
    \/ \E c \in Clients, frame \in DisposeFrames : ClientMessage(c, frame)

SpecDispose == InitRegistry /\ [][NextDispose]_vars

-----------------------------------------------------------------------------
(* Properties of one session *)

\* the texts of a log of appends, concatenated in order
RECURSIVE ConcatData(_)
ConcatData(log) ==
    IF log = <<>> THEN <<>> ELSE log[1].data \o ConcatData(Tail(log))

\* the last n characters of s, all of s when it is shorter
LastChars(s, n) == IF Len(s) > n THEN SubSeq(s, Len(s) - n + 1, Len(s)) ELSE s

IsPtyEntry(e) == e.origin = "pty"
IsSessionEntry(e) == e.origin = "session"

\* the entries a step appends to a log
Appended(before, after) == SubSeq(after, Len(before) + 1, Len(after))

\* C1: in every reachable state the history of a session is no longer than its
\* historyLimit, whatever chunks the PTY emitted and whatever the session itself wrote
\* to the terminal.
HistoryWithinLimit ==
    \A k \in DOMAIN sess : Len(sess[k].history) <= sess[k].historyLimit

\* a PTY chunk longer than the limit and a write of the session have both been appended
HistoryWithinLimitWitness ==
    \E k \in DOMAIN sess :
        /\ \E i \in DOMAIN sess[k].emitLog :
              /\ IsPtyEntry(sess[k].emitLog[i])
              /\ Len(sess[k].emitLog[i].data) > sess[k].historyLimit
        /\ \E i \in DOMAIN sess[k].emitLog : IsSessionEntry(sess[k].emitLog[i])
        /\ Len(sess[k].history) = sess[k].historyLimit

\* C2 (as stated): once closed is true no step invokes pty.write of the session
NoPtyWriteAfterClosed ==
    [][\A k \in DOMAIN sess :
          sess[k].closed => sess'[k].pty.writes = sess[k].pty.writes]_vars

\* C3: the first messages a client receives are the snapshot, the meta and the status
\* of attach, in this order and in one step, the status being terminated exactly when
\* the session was closed at the attach; nothing is delivered before them and what was
\* delivered stays.
GreetingComesFirst ==
    [][\A c \in Clients :
          /\ (sock[c].sent = <<>> /\ sock'[c].sent # <<>>) =>
                LET k == sock'[c].session
                    m == sock'[c].sent
                IN /\ k \in DOMAIN sess
                   /\ Len(m) = 3
                   /\ m[1].type = "snapshot"
                   /\ m[2].type = "meta"
                   /\ m[3].type = "status"
                   /\ m[3].status = IF sess[k].closed THEN "terminated" ELSE "ready"
          /\ Len(sock'[c].sent) >= Len(sock[c].sent)
          /\ SubSeq(sock'[c].sent, 1, Len(sock[c].sent)) = sock[c].sent]_vars

\* one client was greeted with ready and received output afterwards, another was greeted
\* with terminated
GreetingComesFirstWitness ==
    \E c1, c2 \in Clients :
        /\ Len(sock[c1].sent) > 3
        /\ sock[c1].sent[3].status = "ready"
        /\ sock[c1].sent[4].type = "output"
        /\ Len(sock[c2].sent) = 3
        /\ sock[c2].sent[3].status = "terminated"

IsExitBroadcast(message) ==
    /\ message.type = "status"
    /\ message.status = "terminated"
    /\ "code" \in DOMAIN message

ExitBroadcasts(sent) == Cardinality({i \in DOMAIN sent : IsExitBroadcast(sent[i])})

\* C4: closed never goes back to false; the step in which the exit event of the PTY
\* reaches the session sets closed and appends the terminated status, with the code and
\* the signal of the exit, once to every client that is attached and open and to no
\* other; no client ever holds two exit broadcasts.
ExitBroadcastOnce ==
    [][\A k \in DOMAIN sess :
          /\ sess[k].closed => sess'[k].closed
          /\ (sess[k].pty.alive /\ ~sess'[k].pty.alive /\ sess[k].exitSubscription) =>
                LET details == sess'[k].pty.exit[1]
                    message == [type |-> "status", status |-> "terminated",
                                code |-> details.exitCode, signal |-> details.signal]
                IN /\ sess'[k].closed
                   /\ \A c \in Clients :
                         sock'[c].sent =
                            IF c \in sess[k].clients /\ sock[c].readyState = WS_STATE_OPEN
                            THEN Append(sock[c].sent, message)
                            ELSE sock[c].sent
          /\ \A c \in Clients : ExitBroadcasts(sock'[c].sent) <= 1]_vars

\* the PTY exited with two clients attached: the open one holds the broadcast, the one
\* whose socket was closing does not
ExitBroadcastOnceWitness ==
    \E k \in DOMAIN sess, c1, c2 \in Clients :
        /\ sess[k].closed
        /\ ~sess[k].pty.alive
        /\ {c1, c2} \subseteq sess[k].clients
        /\ ExitBroadcasts(sock[c1].sent) = 1
        /\ sock[c2].readyState = 2
        /\ Len(sock[c2].sent) >= 3
        /\ ExitBroadcasts(sock[c2].sent) = 0

\* the snapshot of the step that attaches client c, if the step is one
AttachStep(c) == sock[c].sent = <<>> /\ sock'[c].sent # <<>>

\* C9 (as stated): the snapshot of an attach is the concatenation of the cleaned PTY
\* chunks appended before it, cut to its last historyLimit characters
SnapshotIsCleanedChunks ==
    [][\A c \in Clients :
          AttachStep(c) =>
             LET s == sess[sock'[c].session]
             IN sock'[c].sent[1].data =
                   LastChars(ConcatData(SelectSeq(s.emitLog, IsPtyEntry)), s.historyLimit)]_vars

\* C9 (amended): the snapshot of an attach is the whole history, which is the
\* concatenation, in the order of their appends, of the cleaned PTY chunks and of the
\* texts the session wrote with _writeToLogAndBroadcast before the attach, cut to its
\* last historyLimit characters
SnapshotIsHistory ==
    [][\A c \in Clients :
          AttachStep(c) =>
             LET s == sess[sock'[c].session]
             IN /\ sock'[c].sent[1].type = "snapshot"
                /\ sock'[c].sent[1].data = s.history
                /\ s.history = LastChars(ConcatData(s.emitLog), s.historyLimit)]_vars

\* a client attached after a PTY chunk and a write of the session, and nothing was
\* sent to it since: its snapshot is the last characters of both
SnapshotIsHistoryWitness ==
    \E c \in Clients :
        /\ sock[c].session \in DOMAIN sess
        /\ Len(sock[c].sent) = 3
        /\ sock[c].readyState = WS_STATE_OPEN
        /\ c \in sess[sock[c].session].clients
        /\ LET s == sess[sock[c].session]
           IN /\ \E i \in DOMAIN s.emitLog : IsPtyEntry(s.emitLog[i])
              /\ \E i \in DOMAIN s.emitLog : IsSessionEntry(s.emitLog[i])
              /\ s.historyLimit = MaxHistoryLimit
              /\ sock[c].sent[1].data = s.history
              /\ Len(s.history) = s.historyLimit

\* C10: a step that appends text c to a history h leaves the last historyLimit
\* characters of h followed by c, all of it when it fits; a history of exactly
\* historyLimit characters that receives one character loses its first character only.
AppendKeepsTail ==
    [][\A k \in DOMAIN sess :
          LET s == sess[k]
              c == ConcatData(Appended(s.emitLog, sess'[k].emitLog))
              h == sess'[k].history
          IN /\ Len(h) = IF Len(s.history) + Len(c) > s.historyLimit
                         THEN s.historyLimit ELSE Len(s.history) + Len(c)
             /\ h = LastChars(s.history \o c, s.historyLimit)
             /\ (Len(s.history) = s.historyLimit /\ Len(c) = 1) =>
                   h = Tail(s.history) \o c]_vars

\* a history of exactly MaxHistoryLimit characters received one character
AppendKeepsTailWitness ==
    \E k \in DOMAIN sess :
        LET log == sess[k].emitLog
        IN /\ sess[k].historyLimit = MaxHistoryLimit
           /\ Len(log) >= 2
           /\ Len(log[Len(log)].data) = 1
           /\ Len(ConcatData(SubSeq(log, 1, Len(log) - 1))) >= sess[k].historyLimit
           /\ Len(sess[k].history) = sess[k].historyLimit
           /\ sess[k].history[Len(sess[k].history)] = log[Len(log)].data[1]

-----------------------------------------------------------------------------
(* Properties of the registry *)

\* C5: a step that starts with a session in the registry and returns (nothing thrown)
\* while the manager is not disposing leaves a session in the registry; when the step
\* removed the only session, the registry holds exactly one session afterwards, created
\* by the step, whose id no session had before.
RegistryRespawns ==
    [][(DOMAIN sessions # {} /\ ~disposing' /\ ~threw') =>
          /\ DOMAIN sessions' # {}
          /\ \A id \in DOMAIN sessions :
                (DOMAIN sessions = {id} /\ id \notin DOMAIN sessions') =>
                   /\ Cardinality(DOMAIN sessions') = 1
                   /\ \A newId \in DOMAIN sessions' :
                         /\ newId \notin {sess[j].id : j \in DOMAIN sess}
                         /\ sessions'[newId] = Len(sess) + 1
                         /\ sess'[sessions'[newId]].id = newId
                         /\ sess'[sessions'[newId]].pty.alive]_vars

\* the only session was removed twice, once by the exit of its PTY and once by a DELETE
\* request, and each time one new session took its place
RegistryRespawnsWitness ==
    /\ ~disposing
    /\ ~threw
    /\ Len(sess) = 3
    /\ Cardinality(DOMAIN sessions) = 1
    /\ sessions[sess[3].id] = 3
    /\ \E j1, j2 \in 1..2 :
          /\ j1 # j2
          /\ ~sess[j1].pty.alive /\ sess[j1].closed
          /\ sess[j2].pty.alive /\ ~sess[j2].exitSubscription

-----------------------------------------------------------------------------
(* Properties of the marker stream *)

\* text is an exit marker: ESC ]1337;ExitCode= digits ;CommandB64= base64 BEL
IsExitMarkerText(text) ==
    LET head == OscPrefix \o ExitCodeLit
        body == SubSeq(text, Len(head) + 1, Len(text) - 1)
        sep  == Len(CommandB64Lit)
    IN /\ Len(text) > Len(head) + 1
       /\ SubSeq(text, 1, Len(head)) = head
       /\ text[Len(text)] = BEL
       /\ \E p \in 1..Len(body) :
             /\ \A i \in 1..p : IsDigit(body[i])
             /\ SubSeq(body, p + 1, p + sep) = CommandB64Lit
             /\ p + sep < Len(body)
             /\ \A i \in (p + sep + 1)..Len(body) : IsB64(body[i])

\* text is a tabminal-private marker
IsPrivateMarkerText(text) == text = PROMPT_MARKER \/ IsExitMarkerText(text)

\* the spans <<first, last>> (positions from 1) of chunk that are a private marker: a
\* marker starts with ESC and ends with BEL
MarkerSpans(chunk) ==
    {span \in {i \in 1..Len(chunk) : chunk[i] = ESC} \X {e \in 1..Len(chunk) : chunk[e] = BEL} :
        /\ span[1] < span[2]
        /\ IsPrivateMarkerText(SubSeq(chunk, span[1], span[2]))}

\* the positions of the characters of chunk that belong to a private marker lying
\* wholly in the chunk
MarkerPositions(chunk) == UNION {span[1]..span[2] : span \in MarkerSpans(chunk)}

\* chunk from position n on, without the characters at the positions of drop
RECURSIVE Without(_, _, _)
Without(chunk, drop, n) ==
    IF n > Len(chunk) THEN <<>>
    ELSE (IF n \in drop THEN <<>> ELSE <<chunk[n]>>) \o Without(chunk, drop, n + 1)

\* the chunk with exactly its private markers removed, every other character in order
StripPrivate(chunk) == Without(chunk, MarkerPositions(chunk), 1)

\* the start positions of the exit markers lying wholly in the chunk
ExitMarkerStarts(chunk) ==
    {span[1] : span \in {m \in MarkerSpans(chunk) :
                            IsExitMarkerText(SubSeq(chunk, m[1], m[2]))}}

\* the session's step is the arrival of a PTY chunk
DataStep(k) == Len(sess'[k].ptyChunks) = Len(sess[k].ptyChunks) + 1

\* the chunk that arrives in a data step
ArrivedChunk(k) == sess'[k].ptyChunks[Len(sess'[k].ptyChunks)]

IsOutput(message) == message.type = "output"

\* the exit markers lying wholly in the chunk, as the regex matches them from left to right
ExitMatches(chunk) ==
    LET starts == ExitMarkerStarts(chunk)
        nth(n) == CHOOSE i \in starts : Cardinality({j \in starts : j < i}) = n - 1
    IN [n \in 1..Cardinality(starts) |-> MatchAt(chunk, nth(n) - 1)]

\* the record _logCommandExecution appends for an entry
RecordOf(entry) ==
    [command |-> entry.command, exitCode |-> entry.exitCode,
     input |-> entry.input, output |-> entry.output,
     startedAt |-> entry.startedAt, completedAt |-> entry.completedAt,
     duration |-> entry.completedAt - entry.startedAt]

\* C6 (as stated): the arrival of a chunk appends one record for each exit marker in
\* it, and the last of them is lastExecution
EveryExitMarkerRecorded ==
    [][\A k \in DOMAIN sess :
          DataStep(k) =>
             LET exits == ExitMatches(ArrivedChunk(k))
             IN /\ sess'[k].pushes = sess[k].pushes + Len(exits)
                /\ Len(exits) > 0 =>
                      /\ sess'[k].lastExecution # <<>>
                      /\ sess'[k].lastExecution[1].command
                            = DecodeCommandSafe(exits[Len(exits)].cmdB64)]_vars

\* C6 (amended): an exit marker yields at most one record and never two.  A chunk that
\* arrives while PTY output is suppressed is dropped with its markers.  Otherwise the
\* first exit marker lying wholly in the chunk only clears skipNextShellLog when that
\* flag is set; every other one becomes lastExecution, with its decoded command and its
\* exit code, and is appended to executions as one record unless it is one of the
\* shell's own commands (the command __bash_prompt, or an input that contains
\* 'export PROMPT_COMMAND'), which is appended nowhere.  A chunk without a whole exit
\* marker appends nothing.
ExitMarkerRecords ==
    [][\A k \in DOMAIN sess :
          DataStep(k) =>
             LET s == sess[k]
                 t == sess'[k]
                 exits == ExitMatches(ArrivedChunk(k))
                 skipped == IF s.skipNextShellLog /\ Len(exits) > 0 THEN 1 ELSE 0
                 handled == IF s.suppressPtyOutput THEN 0 ELSE Len(exits) - skipped
                 last == exits[Len(exits)]
             IN /\ t.pushes - s.pushes \in 0..handled
                /\ t.skipNextShellLog =
                      (s.skipNextShellLog /\ (s.suppressPtyOutput \/ Len(exits) = 0))
                /\ handled = 0 =>
                      /\ t.executions = s.executions
                      /\ t.lastExecution = s.lastExecution
                /\ handled > 0 =>
                      /\ t.lastExecution # <<>>
                      /\ t.lastExecution[1].command = DecodeCommandSafe(last.cmdB64)
                      /\ t.lastExecution[1].exitCode = ParseDigits(last.exitCodeStr)
                      /\ t.lastExecution[1].completedAt = now
                /\ handled = 1 =>
                      IF IsInternalCommand(t.lastExecution[1])
                      THEN t.executions = s.executions /\ t.pushes = s.pushes
                      ELSE /\ t.pushes = s.pushes + 1
                           /\ t.executions # <<>>
                           /\ t.executions[Len(t.executions)] = RecordOf(t.lastExecution[1])
                           /\ Len(s.executions) < ExecutionsCap =>
                                 t.executions = Append(s.executions,
                                                       RecordOf(t.lastExecution[1]))]_vars

\* after an AI command the first exit marker was skipped, the marker of ls was recorded
\* with its input and output, and the marker of __bash_prompt was recorded nowhere
ExitMarkerRecordsWitness ==
    \E k \in DOMAIN sess :
        /\ sess[k].markerLog = <<"exit-skipped", "exit", "exit">>
        /\ sess[k].pushes = 2
        /\ Len(sess[k].executions) = 2
        /\ sess[k].executions[2].command = <<"l", "s">>
        /\ sess[k].executions[2].input = <<"l", "s">>
        /\ sess[k].executions[2].output = <<"f">>
        /\ sess[k].lastExecution[1].command = BashPromptLit

\* no private marker lies wholly in the chunk
NoWholeMarker(chunk) == MarkerPositions(chunk) = {}

\* C7 (as stated): when a private marker is split across the two chunks a session has
\* processed, its handler has run once and none of its bytes reached the history, the
\* capture buffer or a client
SplitMarkerRecognizedOnce ==
    \A k \in DOMAIN sess :
        LET s == sess[k]
            both == s.ptyChunks[1] \o s.ptyChunks[2]
        IN (/\ Len(s.ptyChunks) = 2
            /\ s.pty.writes = <<>>
            /\ NoWholeMarker(s.ptyChunks[1])
            /\ NoWholeMarker(s.ptyChunks[2])
            /\ ~NoWholeMarker(both)) =>
               /\ Len(s.markerLog) = 1
               /\ s.history = StripPrivate(both)
               /\ s.captureBuffer = <<>>
               /\ \A c \in s.clients :
                     \A i \in DOMAIN sock[c].sent :
                        IsOutput(sock[c].sent[i]) =>
                           sock[c].sent[i].data = StripPrivate(sock[c].sent[i].data)

-----------------------------------------------------------------------------
(* Order of delivery *)

\* the data of the output messages a socket received, in the order of reception
OutputData(sent) ==
    LET outputs == SelectSeq(sent, IsOutput)
    IN [i \in 1..Len(outputs) |-> outputs[i].data]

\* a is b with some elements left out
RECURSIVE IsSubsequence(_, _)
IsSubsequence(a, b) ==
    IF a = <<>> THEN TRUE
    ELSE IF b = <<>> THEN FALSE
    ELSE IF a[1] = b[1] THEN IsSubsequence(Tail(a), Tail(b))
    ELSE IsSubsequence(a, Tail(b))

\* the chunks of the PTY that were forwarded, in the order of their forwarding
ForwardedChunks(s) ==
    LET entries == SelectSeq(s.emitLog, IsPtyEntry)
    IN [i \in 1..Len(entries) |-> entries[i].data]

\* C11: the PTY chunks a session forwards are forwarded in the order the PTY emitted
\* them, and for every client the data of the output messages it received, in the order
\* of reception, are one unbroken run of the texts the session emitted, in the order of
\* emission: no two output messages are reordered and none is delivered twice.
OutputsInEmissionOrder ==
    /\ \A k \in DOMAIN sess : IsSubsequence(ForwardedChunks(sess[k]), sess[k].ptyChunks)
    /\ \A c \in DOMAIN sock :
          sock[c].session # 0 =>
             LET out == OutputData(sock[c].sent)
                 log == sess[sock[c].session].emitLog
             IN \E a \in 0..Len(log) :
                   /\ a + Len(out) <= Len(log)
                   /\ \A i \in 1..Len(out) : out[i] = log[a + i].data

\* two different chunks were forwarded; one client received both, the other one
\* attached in between and received the second only
OutputsInEmissionOrderWitness ==
    \E c, d \in DOMAIN sock :
        /\ sock[c].session = 1 /\ sock[d].session = 1
        /\ Len(sess[1].ptyChunks) = 2
        /\ sess[1].ptyChunks[1] # sess[1].ptyChunks[2]
        /\ OutputData(sock[c].sent) = sess[1].ptyChunks
        /\ OutputData(sock[d].sent) = << sess[1].ptyChunks[2] >>


-----------------------------------------------------------------------------
(* Messages of the clients *)

\* the step is the handling of this frame, sent by client c
MessageStep(c, frame) == sock'[c].received = Append(sock[c].received, frame)

\* the concatenation of the arguments of a sequence of pty.write calls
RECURSIVE Flatten(_)
Flatten(writes) == IF writes = <<>> THEN <<>> ELSE writes[1] \o Flatten(Tail(writes))

\* the bytes passed to pty.write in a step, concatenated in order
WrittenInStep(k) == Flatten(Appended(sess[k].pty.writes, sess'[k].pty.writes))

\* what every socket was sent is left as it was
NothingSent == \A c \in DOMAIN sock : sock'[c].sent = sock[c].sent

\* C12 as stated: an input message is written to the PTY verbatim if and only if the
\* session is not closed.
InputWrittenVerbatim ==
    [][\A c \in Clients, data \in RouteInputs :
          MessageStep(c, InputFrame(data)) =>
             LET k == sock[c].session
             IN IF sess[k].closed THEN sess'[k].pty.writes = sess[k].pty.writes
                ELSE WrittenInStep(k) = data]_vars

\* C12: an input message is written to the PTY if and only if the session is not
\* closed, and then the bytes passed to pty.write, concatenated in order, are the data
\* with nothing added, removed or withheld except that every Enter which starts an AI
\* command (it ends a typed line that begins with '#') is replaced by Ctrl+U; data
\* with no such Enter is written verbatim.
InputWrittenExceptAiEnter ==
    [][\A c \in Clients, data \in RouteInputs :
          MessageStep(c, InputFrame(data)) =>
             LET k == sock[c].session
                 written == WrittenInStep(k)
                 started == Len(sess'[k].aiInFlight) - Len(sess[k].aiInFlight)
             IN IF sess[k].closed THEN sess'[k].pty.writes = sess[k].pty.writes
                ELSE /\ Len(written) = Len(data)
                     /\ \A i \in 1..Len(data) :
                           written[i] # data[i] => data[i] = CR /\ written[i] = NAK
                     /\ Cardinality({i \in 1..Len(data) : written[i] # data[i]}) = started
                     /\ (started = 0 => written = data)]_vars

\* a client sent three lines in one message, the second an AI command line: its Enter
\* was replaced; the PTY exited and a second input of the client was not written
InputWrittenExceptAiEnterWitness ==
    \E c \in Clients :
        /\ sock[c].session = 1
        /\ Len(sock[c].received) = 2
        /\ sock[c].received[1] = InputFrame(<<"x", CR, "#", "a", CR, "b">>)
        /\ sock[c].received[2] = InputFrame(<<"l", "s", CR>>)
        /\ sess[1].pty.writes = << <<"x", CR, "#", "a">>, <<NAK>>, <<"b">> >>
        /\ sess[1].closed

\* the dimension does not parse as a positive integer
NotPositiveInteger(value) == ParseInt(value) = <<>> \/ ParseInt(value)[1] <= 0

\* C14: a resize message in which either dimension does not parse as a positive integer
\* causes no PTY resize, no meta broadcast and no change of the geometry of the session
\* or the registry; a valid resize {cols: 200, rows: 40} to a session that is not closed
\* resizes the PTY exactly once, with (200, 40).
InvalidResizeIgnored ==
    [][\A c \in Clients, d \in ResizeDimensions :
          MessageStep(c, ResizeFrame(d[1], d[2])) =>
             LET k == sock[c].session
             IN /\ NotPositiveInteger(d[1]) \/ NotPositiveInteger(d[2]) =>
                      /\ sess' = sess
                      /\ NothingSent
                      /\ lastCols' = lastCols /\ lastRows' = lastRows
                /\ d = <<Num(200), Num(40)>> /\ ~sess[k].closed =>
                      /\ sess'[k].pty.resizes = Append(sess[k].pty.resizes, <<200, 40>>)
                      /\ sess'[k].pty.cols = 200 /\ sess'[k].pty.rows = 40]_vars

\* a client sent {cols: -5, rows: 'bad'} and then {cols: 200, rows: 40}: one resize
InvalidResizeIgnoredWitness ==
    \E c \in Clients :
        /\ sock[c].session = 1
        /\ sock[c].received = << ResizeFrame(Num(0 - 5), Str(<<"b", "a", "d">>)),
                                 ResizeFrame(Num(200), Num(40)) >>
        /\ sess[1].pty.resizes = << <<200, 40>> >>

\* the value is a number above 500
AboveMax(value) == value.t = "number" /\ value.n > MaxDimension

\* the value is not an integer
NonInteger(value) == value.t # "number" \/ value.half

\* C15 as stated: a resize message with cols <= 0, with a non-integer rows value, or
\* with either dimension greater than 500 is rejected: the PTY is not resized.
OutOfRangeResizeRejected ==
    [][\A c \in Clients, d \in ResizeDimensions :
          /\ MessageStep(c, ResizeFrame(d[1], d[2]))
          /\ \/ d[1].t = "number" /\ ~d[1].half /\ d[1].n <= 0
             \/ NonInteger(d[2])
             \/ AboveMax(d[1]) \/ AboveMax(d[2])
          => sess'[sock[c].session].pty.resizes = sess[sock[c].session].pty.resizes]_vars

\* the dimension a PTY gets for a value that parses as a positive integer
Clamped(value) == IF ParseInt(value)[1] > MaxDimension THEN MaxDimension ELSE ParseInt(value)[1]

\* C15: a resize message is rejected (the PTY is not resized) exactly when parseInt of
\* one of its dimensions is NaN or not positive; a dimension greater than 500 is
\* lowered to 500 and a fraction or a trailing text after the digits is cut off, and
\* the PTY of a session that is not closed is resized once with the resulting values.
ResizeClampsAndTruncates ==
    [][\A c \in Clients, d \in ResizeDimensions :
          MessageStep(c, ResizeFrame(d[1], d[2])) =>
             LET k == sock[c].session
                 resized == Appended(sess[k].pty.resizes, sess'[k].pty.resizes)
             IN /\ resized = IF sess[k].closed \/ NotPositiveInteger(d[1]) \/ NotPositiveInteger(d[2])
                             THEN <<>>
                             ELSE << <<Clamped(d[1]), Clamped(d[2])>> >>
                /\ ~sess[k].closed =>
                      /\ d = <<Num(600), Num(40)>> => resized = << <<500, 40>> >>
                      /\ d = <<Num(200), NumAndHalf(12)>> => resized = << <<200, 12>> >>
                      /\ d = <<Num(0), Num(40)>> => resized = <<>>]_vars

\* a client sent {cols: 600, rows: 40} and {cols: 200, rows: 12.5}: two resizes
ResizeClampsAndTruncatesWitness ==
    \E c \in Clients :
        /\ sock[c].session = 1
        /\ sock[c].received = << ResizeFrame(Num(600), Num(40)),
                                 ResizeFrame(Num(200), NumAndHalf(12)) >>
        /\ sess[1].pty.resizes = << <<500, 40>>, <<200, 12>> >>

\* C16: an inbound frame that is not a well-formed message (not JSON, JSON that is not
\* an object, an object with an unknown or missing type, an input whose data is not a
\* string) is silently ignored: no PTY write or resize, nothing sent to any client, the
\* session state unchanged, the client still attached, and no error raised out of the
\* message handler.
MalformedIgnored ==
    [][\A c \in Clients, frame \in NonObjectFrames \cup UntypedFrames :
          MessageStep(c, frame) =>
             /\ sess' = sess
             /\ NothingSent
             /\ sock'[c].readyState = WS_STATE_OPEN
             /\ c \in sess'[sock[c].session].clients
             /\ ~threw']_vars

\* a client sent 'null' and the handler threw
MalformedThrows ==
    \E c \in Clients :
        /\ sock[c].received # <<>>
        /\ sock[c].received[Len(sock[c].received)].json = "null"
        /\ threw

Pong == [type |-> "pong"]

\* C17: a ping of a client makes the session send exactly one pong to that client and
\* nothing to any other client, and changes no session state.
PingAnswered ==
    [][\A c \in Clients :
          MessageStep(c, PingFrame) =>
             /\ sock'[c].sent = Append(sock[c].sent, Pong)
             /\ \A d \in Clients \ {c} : sock'[d].sent = sock[d].sent
             /\ sess' = sess]_vars

\* one of two attached clients sent a ping and holds the pong, the other holds its
\* greeting only
PingAnsweredWitness ==
    \E c, d \in Clients :
        /\ c # d
        /\ sock[c].session = 1 /\ sock[d].session = 1
        /\ sock[c].received = <<PingFrame>>
        /\ sock[c].sent[Len(sock[c].sent)] = Pong
        /\ Len(sock[d].sent) = 3
        /\ d \in sess[1].clients


\* C13: a valid resize message (both dimensions parse as positive integers) from a
\* client of a session of the registry is propagated through the global resize of the
\* registry: afterwards the PTY of every session of the registry that is not closed
\* has the same (cols, rows), and lastCols and lastRows of the registry equal them.
ResizeReachesRegistry ==
    [][\A c \in Clients, d \in ResizeDimensions :
          /\ MessageStep(c, ResizeFrame(d[1], d[2]))
          /\ ~NotPositiveInteger(d[1]) /\ ~NotPositiveInteger(d[2])
          /\ sock[c].session \in RegisteredSessions(World)
          => /\ \A k \in RegisteredSessions(World) :
                   ~sess'[k].closed =>
                      /\ sess'[k].pty.cols = Clamped(d[1])
                      /\ sess'[k].pty.rows = Clamped(d[2])
             /\ lastCols' = Clamped(d[1])
             /\ lastRows' = Clamped(d[2])]_vars

\* a client of one of two registered sessions sent {cols: 200, rows: 40}: the PTY of its
\* session was resized, the PTY of the other session and the registry were not
ResizeStaysLocal ==
    \E c \in Clients, j, k \in RegisteredSessions(World) :
        /\ sock[c].session = j
        /\ sock[c].received = << ResizeFrame(Num(200), Num(40)) >>
        /\ sess[j].pty.resizes = << <<200, 40>> >>
        /\ j # k
        /\ ~sess[k].closed
        /\ sess[k].pty.resizes = <<>>
        /\ sess[k].pty.cols = InitialCols
        /\ lastCols = InitialCols /\ lastRows = InitialRows


-----------------------------------------------------------------------------
(* The execution log *)

\* C18: executions never holds more than 100 records, also in a session constructed
\* from restored executions; a step only appends records to it, and when a record is
\* appended at the cap the oldest records are the ones evicted, the remaining records
\* keeping their order.
ExecutionsCapped ==
    [][\A k \in DOMAIN sess :
          LET before == sess[k].executions
              after == sess'[k].executions
              pushed == sess'[k].pushes - sess[k].pushes
          IN /\ Len(before) <= ExecutionsCap
             /\ Len(after) <= ExecutionsCap
             /\ \E evicted \in 0..Len(before) :
                   /\ Len(after) = Len(before) - evicted + pushed
                   /\ SubSeq(after, 1, Len(before) - evicted)
                         = SubSeq(before, evicted + 1, Len(before))
                   /\ evicted > 0 => Len(after) = ExecutionsCap]_vars

\* a session restored with 100 records logged one command: the oldest record is gone,
\* the second is now the first, and the new record is the last
ExecutionsCappedWitness ==
    /\ Len(sess[1].executions) = ExecutionsCap
    /\ sess[1].pushes = 1
    /\ sess[1].executions[1] = RestoredRecord(2)
    /\ sess[1].executions[ExecutionsCap - 1] = RestoredRecord(ExecutionsCap)
    /\ sess[1].executions[ExecutionsCap].command = <<"l", "s">>


-----------------------------------------------------------------------------
(* The PTYs of the registry *)

\* the sessions whose PTY the registry spawned and which is still running
RunningPtys == {k \in DOMAIN sess : sess[k].manager /\ sess[k].pty.alive}

\* C19: at every point the set of PTYs spawned by the registry and still running equals
\* the set of PTYs owned by the sessions in the registry map.
RunningPtysAreRegistered == RunningPtys = RegisteredSessions(World)

\* a session was removed by DELETE while another stayed: its PTY runs, was never sent
\* a signal, and belongs to no session of the registry
OrphanPtyAfterDelete ==
    \E k \in DOMAIN sess :
        /\ ~disposing
        /\ k \notin RegisteredSessions(World)
        /\ sess[k].pty.alive
        /\ sess[k].pty.kills = <<>>
        /\ ~sess[k].exitSubscription
        /\ RegisteredSessions(World) # {}


\* the PTY of session k exits in this step
ExitStep(k) == sess[k].pty.alive /\ ~sess'[k].pty.alive

\* C20: after the PTY of a registered session exits, the registry no longer maps the id
\* of that session, a replacement is registered if it was the last session and the
\* manager is not disposing (and pty.spawn returned), and the terminated status, with
\* the code and the signal of the exit, has reached every open client of the session
\* before dispose detached them.
ExitUnregistersAfterStatus ==
    [][\A k \in DOMAIN sess :
          ExitStep(k) /\ k \in RegisteredSessions(World) =>
             LET id == sess[k].id
                 details == sess'[k].pty.exit[1]
             IN /\ id \notin DOMAIN sessions'
                /\ k \notin RegisteredSessions(World)'
                /\ DOMAIN sessions = {id} /\ ~disposing /\ ~threw' =>
                      /\ Cardinality(DOMAIN sessions') = 1
                      /\ \A j \in RegisteredSessions(World)' :
                            j \notin DOMAIN sess /\ sess'[j].pty.alive
                /\ DOMAIN sessions # {id} =>
                      DOMAIN sessions' = DOMAIN sessions \ {id}
                /\ \A c \in sess[k].clients :
                      sock[c].readyState = WS_STATE_OPEN =>
                         sock'[c].sent =
                            Append(sock[c].sent,
                                   [type |-> "status", status |-> "terminated",
                                    code |-> details.exitCode, signal |-> details.signal])
                /\ sess'[k].closed
                /\ sess'[k].clients = {}]_vars

\* the PTY of the only session exited while a client was connected: the client holds
\* the terminated status as its last message, the session has no client and is not
\* registered, and a replacement is
ExitUnregistersAfterStatusWitness ==
    \E k \in DOMAIN sess, c \in Clients :
        /\ sock[c].session = k
        /\ sock[c].readyState = WS_STATE_OPEN
        /\ ~sess[k].pty.alive
        /\ sess[k].closed
        /\ sess[k].clients = {}
        /\ IsExitBroadcast(sock[c].sent[Len(sock[c].sent)])
        /\ k \notin RegisteredSessions(World)
        /\ Len(sess) = 2
        /\ RegisteredSessions(World) = {2}


-----------------------------------------------------------------------------
(* Shutdown of the registry *)

\* the step is dispose() of the manager
DisposeStep == ~disposing /\ disposing'

\* C21: dispose of the registry sets disposing, sends SIGHUP to the PTY of every session
\* that was in the map and to no other, and leaves the map empty; a PTY exit that
\* arrives after dispose creates no session and adds nothing to the map.
DisposeKillsAndClears ==
    [][/\ DisposeStep =>
             /\ DOMAIN sessions' = {}
             /\ Len(sess') = Len(sess)
             /\ \A k \in DOMAIN sess :
                   sess'[k].pty.kills =
                      IF k \in RegisteredSessions(World)
                      THEN Append(sess[k].pty.kills, "SIGHUP")
                      ELSE sess[k].pty.kills
       /\ disposing => disposing'
       /\ \A k \in DOMAIN sess :
             disposing /\ ExitStep(k) =>
                /\ Len(sess') = Len(sess)
                /\ DOMAIN sessions' \subseteq DOMAIN sessions
                /\ DOMAIN sessions = {} => DOMAIN sessions' = {}]_vars

\* two sessions were registered when the manager was disposed; both PTYs got SIGHUP and
\* exited afterwards, and the map is still empty with no third session created
DisposeKillsAndClearsWitness ==
    /\ disposing
    /\ DOMAIN sessions = {}
    /\ Len(sess) = 2
    /\ \A k \in DOMAIN sess :
          /\ sess[k].pty.kills = <<"SIGHUP">>
          /\ ~sess[k].pty.alive
          /\ sess[k].closed


-----------------------------------------------------------------------------
(* The init scripts of the shells *)

\* removeSession(id) removed session k in this step and returned
RemoveStep(k) ==
    /\ k \in RegisteredSessions(World)
    /\ k \notin RegisteredSessions(World)'
    /\ ~DisposeStep
    /\ ~threw'

\* C22: after Remove(id) returns for an existing session the temp rc file written for
\* that session no longer exists, and in every case the rc file of a session is deleted
\* once its PTY has exited.
InitFileRemoved ==
    [][\A k \in DOMAIN sess :
          /\ RemoveStep(k) => ~sess'[k].initFile
          /\ ExitStep(k) => ~sess'[k].initFile]_vars

\* a session was removed by DELETE while the manager was not disposing: its init script
\* still exists and its PTY runs
InitFileAfterDelete ==
    \E k \in DOMAIN sess :
        /\ ~disposing
        /\ ~threw
        /\ k \notin RegisteredSessions(World)
        /\ sess[k].pty.alive
        /\ sess[k].initFile


-----------------------------------------------------------------------------
(* Failure of pty.spawn *)

\* C23: when pty.spawn fails inside createSession the error reaches the caller and the
\* map of the registry is as it was before the call, no session added and none removed
\* by createSession; on the respawn path of removeSession that is the map without the
\* session removeSession had just deleted.
SpawnFailureLeavesRegistry ==
    [][threw' =>
          /\ Len(sess') = Len(sess)
          /\ DOMAIN sessions' \subseteq DOMAIN sessions
          /\ \A id \in DOMAIN sessions' : sessions'[id] = sessions[id]
          /\ DOMAIN sessions' # DOMAIN sessions =>
                /\ DOMAIN sessions' = {}
                /\ Cardinality(DOMAIN sessions) = 1
                /\ ~disposing]_vars

\* pty.spawn threw in the respawn of removeSession: no session was created and the map
\* is empty although the manager is not disposing
SpawnFailureLeavesRegistryWitness ==
    /\ threw
    /\ ~disposing
    /\ DOMAIN sessions = {}
    /\ Len(sess) = 1


-----------------------------------------------------------------------------
(* Dispose of a session *)

\* session k is disposed in this step
SessionDisposeStep(k) == sess[k].exitSubscription /\ ~sess'[k].exitSubscription

\* the sockets that were attached to session k
SocketsOf(k) == {c \in DOMAIN sock : sock[c].session = k}

\* C24: dispose of a session stops the prober timer, empties the client set without
\* closing any client socket, and unsubscribes from the PTY; data and exit events of
\* the PTY of a disposed session change neither history nor closed and send nothing to
\* any formerly attached client.
DisposeDetaches ==
    [][\A k \in DOMAIN sess :
          /\ SessionDisposeStep(k) =>
                /\ ~sess'[k].pollingInterval
                /\ sess'[k].clients = {}
                /\ ~sess'[k].dataSubscription
                /\ \A c \in SocketsOf(k) : sock'[c].readyState = sock[c].readyState
          /\ ~sess[k].exitSubscription /\ (DataStep(k) \/ ExitStep(k)) =>
                /\ sess'[k].history = sess[k].history
                /\ sess'[k].closed = sess[k].closed
                /\ sess'[k].clients = {}
                /\ \A c \in SocketsOf(k) : sock'[c].sent = sock[c].sent]_vars

\* a session with an open client was removed by DELETE; its PTY then emitted a chunk and
\* exited: the history is empty, closed is false, the client holds its greeting only
DisposeDetachesWitness ==
    \E k \in DOMAIN sess, c \in Clients :
        /\ sock[c].session = k
        /\ sock[c].readyState = WS_STATE_OPEN
        /\ Len(sock[c].sent) = 3
        /\ ~sess[k].exitSubscription
        /\ sess[k].ptyChunks # <<>>
        /\ ~sess[k].pty.alive
        /\ sess[k].history = <<>>
        /\ ~sess[k].closed

\* C25: input and resize messages that arrive for a session after it has been disposed
\* or closed are dropped: they cause no pty.write and no pty.resize, also when they come
\* from sockets that were attached before the dispose and are still open.
MessagesAfterDisposeDropped ==
    [][\A c \in Clients, frame \in DisposeFrames :
          MessageStep(c, frame) =>
             LET k == sock[c].session
             IN ~sess[k].exitSubscription \/ sess[k].closed =>
                   /\ sess'[k].pty.writes = sess[k].pty.writes
                   /\ sess'[k].pty.resizes = sess[k].pty.resizes]_vars

\* a session was removed by DELETE while a client was connected; the client then sent
\* input and a resize, and both reached the PTY
WriteAfterDispose ==
    \E c \in Clients :
        LET k == sock[c].session
        IN /\ k # 0
           /\ ~disposing
           /\ k \notin RegisteredSessions(World)
           /\ ~sess[k].closed
           /\ sess[k].clients = {}
           /\ sock[c].received = << InputFrame(<<"l", "s", CR>>), ResizeFrame(Num(200), Num(40)) >>
           /\ sess[k].pty.writes = << <<"l", "s", CR>> >>
           /\ sess[k].pty.resizes = << <<200, 40>> >>


-----------------------------------------------------------------------------
(* Order of the execution log and the broadcast *)

\* the chunk has characters that belong to no marker before its first exit marker
BytesBeforeExitMarker(chunk) ==
    /\ ExitMarkerStarts(chunk) # {}
    /\ StripPrivate(Slice(chunk, 0, LeastOr(ExitMarkerStarts(chunk), 1) - 1)) # <<>>

\* C26: the record of an exit marker is appended to executions only after every byte
\* that precedes the marker in the PTY stream has been broadcast, including the bytes
\* that arrive in the same chunk as the marker.
RecordAfterBroadcast ==
    [][\A k \in DOMAIN sess :
          DataStep(k) /\ BytesBeforeExitMarker(ArrivedChunk(k)) =>
             LET pushed == Appended(sess[k].pushLog, sess'[k].pushLog)
             IN \A i \in DOMAIN pushed : pushed[i] > Len(sess[k].emitLog)]_vars

\* the chunk 'ls', LF, 'f', LF and the exit marker of ls arrived first: the record was
\* appended when nothing had been forwarded, the text was forwarded afterwards
RecordBeforeBroadcast ==
    /\ sess[1].ptyChunks = <<LsChunk>>
    /\ Len(sess[1].executions) = 1
    /\ sess[1].pushLog = <<0>>
    /\ Len(sess[1].emitLog) = 1
    /\ sess[1].emitLog[1].data = <<"l", "s", LF, "f", LF>>


-----------------------------------------------------------------------------
(* The capture between markers *)

\* the position of the last character of the last private marker of the chunk, 0 when
\* the chunk has none
LastMarkerEnd(chunk) == GreatestOr({span[2] : span \in MarkerSpans(chunk)}, 0)

\* the bytes received since the most recent private marker before position start of the
\* chunk that arrives at a session whose capture buffer is buffer
BytesSinceMarker(buffer, chunk, start) ==
    LET before == Slice(chunk, 0, start - 1)
    IN IF NoWholeMarker(before) THEN buffer \o before
       ELSE SliceFrom(before, LastMarkerEnd(before))

-----------------------------------------------------------------------------
(* The split of a captured text into input and output *)

MaxSplitLines == 4

\* the texts made of at most n of the pieces
RECURSIVE TextsOf(_, _)
TextsOf(pieces, n) ==
    IF n = 0 THEN {<<>>}
    ELSE LET shorter == TextsOf(pieces, n - 1)
         IN shorter \cup {text \o piece : text \in shorter, piece \in pieces}

\* lines of a capture: a command, continuation lines (one after a reset of the colours,
\* one with the prompt in capitals), an empty line, a line holding only a reset of the
\* colours and a blank, a line of output, and a last line without a newline
SplitLines ==
    { <<"l", "s", LF>>,
      <<">", " ", "a", CR, LF>>,
      <<ESC, "[", "0", "m", " ", "+", "b", CR>>,
      <<"Q", "u", "o", "t", "e", ">", LF>>,
      <<LF>>,
      <<ESC, "[", "0", "m", " ", CR, LF>>,
      <<"o", "u", "t", LF>>,
      <<"f">> }

\* the captures of at most n lines
SplitTexts(n) == TextsOf(SplitLines, n)

\* a session whose capture buffer holds the text
SessionCapturing(text) ==
    [NewSession(0, FALSE, <<"T", "e", "r", "m", "i", "n", "a", "l">>, <<>>, "",
                DEFAULT_HISTORY_LIMIT, <<>>, NewPty(80, 24))
       EXCEPT !.captureBuffer = text]

InitSplit ==
    /\ sess \in {<<SessionCapturing(text)>> : text \in SplitTexts(MaxSplitLines)}
    /\ sock = [c \in Clients |-> NewSocket]
    /\ now = 0
    /\ NoManager

\* _splitInputOutput applied to the capture buffer: the entry holds the two parts as
\* they are before _postProcessExecutionEntry
SplitCapture(k) ==
    /\ Live(k)
    /\ sess[k].lastExecution = <<>>
    /\ Commit([World EXCEPT !.sess[k].lastExecution =
                  <<ProcessedEntry(<<>>, <<>>, now, now,
                                   SplitInputOutput(sess[k].captureBuffer))>>])

NextSplit == SplitCapture(1)

SpecSplit == InitSplit /\ [][NextSplit]_vars

\* the line of a segment after ANSI stripping and left-trim
StrippedLine(segment) == TrimStart(StripAnsi(segment.plain))

IsEmptyLine(segment) == StrippedLine(segment) = <<>>

\* the line starts with a continuation prompt
IsContinuationLine(segment) ==
    LET lower == [i \in 1..Len(StrippedLine(segment)) |-> ToLower(StrippedLine(segment)[i])]
    IN \E prompt \in { <<">">>, <<"+">>, <<"q", "u", "o", "t", "e", ">">>,
                       <<"h", "e", "r", "e", "d", "o", "c", ">">>,
                       <<"p", "s", "2", ">">>, <<"?">> } :
          StartsWith(lower, prompt)

\* the length of the first n lines with their newlines
RECURSIVE RawLength(_, _)
RawLength(lines, n) == IF n = 0 THEN 0 ELSE RawLength(lines, n - 1) + lines[n].raw

\* C28 (as stated): the first line belongs to input; every following line that is empty
\* or that, after ANSI stripping and left-trim, starts with a continuation prompt also
\* belongs to input; output starts at the first line that is neither, and input followed
\* by output is the captured text.
SplitAtFirstOutputLine ==
    \A k \in DOMAIN sess :
        sess[k].lastExecution # <<>> /\ sess[k].captureBuffer # <<>> =>
           LET text == sess[k].captureBuffer
               entry == sess[k].lastExecution[1]
               lines == Segments(text, 0)
               stop == LeastOr({i \in 2..Len(lines) :
                                   ~IsContinuationLine(lines[i]) /\ ~IsEmptyLine(lines[i])},
                               Len(lines) + 1)
           IN /\ entry.input \o entry.output = text
              /\ Len(entry.input) = RawLength(lines, stop - 1)

\* C28 (amended): the first line belongs to input; the lines that follow it belong to
\* input as long as each, after ANSI stripping and left-trim, starts with a continuation
\* prompt (in any case of the letters); the first line that is empty after the stripping
\* and the trim belongs to input too and ends it.  Output starts after that empty line,
\* or at the first line that is neither empty nor a continuation, and input followed by
\* output is the captured text.
SplitStopsAfterEmptyLine ==
    \A k \in DOMAIN sess :
        sess[k].lastExecution # <<>> /\ sess[k].captureBuffer # <<>> =>
           LET text == sess[k].captureBuffer
               entry == sess[k].lastExecution[1]
               lines == Segments(text, 0)
               stop == LeastOr({i \in 2..Len(lines) : ~IsContinuationLine(lines[i])},
                               Len(lines) + 1)
               count == IF stop <= Len(lines) /\ IsEmptyLine(lines[stop])
                        THEN stop ELSE stop - 1
           IN /\ entry.input \o entry.output = text
              /\ Len(entry.input) = RawLength(lines, count)

\* the capture 'ls', an empty line, the continuation line '> a' and 'out' was split
\* after the empty line: the continuation line is output
SplitStopsAfterEmptyLineWitness ==
    /\ sess[1].captureBuffer =
          <<"l", "s", LF, LF, ">", " ", "a", CR, LF, "o", "u", "t", LF>>
    /\ sess[1].lastExecution # <<>>
    /\ sess[1].lastExecution[1].input = <<"l", "s", LF, LF>>
    /\ sess[1].lastExecution[1].output = <<">", " ", "a", CR, LF, "o", "u", "t", LF>>


-----------------------------------------------------------------------------
(* The echo of the command in a captured text *)

MaxEchoPieces == 6

\* pieces of a capture: a prompt, the command ls, newlines, a letter that is no prompt
\* character, and a line of output that is a command too
EchoPieces ==
    { <<"$", " ">>, <<"l", "s">>, <<LF>>, <<CR, LF>>, <<"x">>, <<"f">> }

\* the captures of at most n pieces
EchoTexts(n) == TextsOf(EchoPieces, n)

EchoCommands == { <<"l", "s">>, <<"f">> }

InitEcho ==
    /\ sess \in {<<SessionCapturing(text)>> : text \in EchoTexts(MaxEchoPieces)}
    /\ sock = [c \in Clients |-> NewSocket]
    /\ now = 0
    /\ NoManager

\* The entry that _handleExitCodeSequence builds from the capture buffer for a decoded
\* command, by _sanitizeCapturedOutput, _splitInputOutput and
\* _postProcessExecutionEntry; the capture buffer is kept for the properties
SanitizeCapture(k, command) ==
    /\ Live(k)
    /\ sess[k].lastExecution = <<>>
    /\ Commit([World EXCEPT !.sess[k].lastExecution =
                  <<EntryForCommand(sess[k], <<"0">>, command, now)>>])

NextEcho == \E command \in EchoCommands : SanitizeCapture(1, command)

SpecEcho == InitEcho /\ [][NextEcho]_vars

\* the indices of the occurrences of target in text that are followed by CR or LF and
\* preceded by the start of the text, whitespace, '$', '>', U+276F, ':' or ESC
EchoOccurrences(text, target) ==
    {idx \in 0..(Len(text) - Len(target) - 1) :
        /\ SubSeq(text, idx + 1, idx + Len(target)) = target
        /\ text[idx + Len(target) + 1] \in {CR, LF}
        /\ idx > 0 => text[idx] \in {" ", TAB, CR, LF, "$", ">", Prompt276F, ":", ESC}}

\* C29: when the capture buffer holds several occurrences of the trimmed command that
\* are followed by CR, LF or CRLF and preceded by the start of the buffer, whitespace,
\* '$', '>', U+276F, ':' or ESC, the echo starts at the last of them: the record is the
\* one of the buffer from that occurrence on, and nothing before it is in the record.
EchoAtLastOccurrence ==
    \A k \in DOMAIN sess :
        sess[k].lastExecution # <<>> =>
           \A entry \in {sess[k].lastExecution[1]} :
              \A occurrences \in {EchoOccurrences(sess[k].captureBuffer, entry.command)} :
                 Cardinality(occurrences) >= 2 =>
                    \A rest \in {SliceFrom(sess[k].captureBuffer,
                                           GreatestOr(occurrences, 0))} :
                       \A capture \in {CleanSplit(SplitInputOutput(
                                          StripLeadingNewlines(
                                             NormalizeCommandEcho(rest, entry.command))))} :
                          /\ entry.input = capture.input
                          /\ entry.output = capture.output
                          /\ StartsWith(entry.input \o entry.output, entry.command)
                          /\ Len(entry.input) + Len(entry.output) <= Len(rest)

\* the capture '$ ls', LF, 'ls', LF, 'f' holds the command ls twice: the record starts at
\* the second one
EchoAtLastOccurrenceWitness ==
    /\ sess[1].captureBuffer = <<"$", " ", "l", "s", LF, "l", "s", LF, "f">>
    /\ sess[1].lastExecution # <<>>
    /\ sess[1].lastExecution[1].command = <<"l", "s">>
    /\ sess[1].lastExecution[1].input = <<"l", "s">>
    /\ sess[1].lastExecution[1].output = <<"f">>


-----------------------------------------------------------------------------
(* The normalization of the echoed command line *)

MaxLineLength == 5

\* the characters of a line: backspace, DEL, CR, the characters of CSI, OSC and
\* two-character escape sequences, and printable characters
LineCharacters ==
    { <<BS>>, <<DEL>>, <<CR>>, <<ESC>>, <<"[">>, <<"]">>, <<BEL>>, <<"K">>, <<"a">> }

\* the lines of at most n characters
LineTexts(n) == TextsOf(LineCharacters, n)

\* no command, a command of one character, and one to be trimmed
LineCommands == { <<>>, <<"a">>, <<" ", "K", "a">> }

InitLine ==
    /\ sess \in {<<SessionCapturing(text)>> : text \in LineTexts(MaxLineLength)}
    /\ sock = [c \in Clients |-> NewSocket]
    /\ now = 0
    /\ NoManager

\* _normalizeCommandEcho applied to the capture buffer and then to its own result: the
\* entry holds the first result as its input and the second as its output
NormalizeCapture(k, command) ==
    /\ Live(k)
    /\ sess[k].lastExecution = <<>>
    /\ \E once \in {NormalizeCommandEcho(sess[k].captureBuffer, command)} :
          Commit([World EXCEPT !.sess[k].lastExecution =
                     <<ProcessedEntry(command, <<>>, now, now,
                                      [input |-> once,
                                       output |-> NormalizeCommandEcho(once, command)])>>])

NextLine == \E command \in LineCommands : NormalizeCapture(1, command)

SpecLine == InitLine /\ [][NextLine]_vars

\* C30: the echo normalization is idempotent: for every line over backspaces, DEL, CR,
\* escape sequences and printable characters and for every command, the normalization
\* of a normalized line is that line.
NormalizationIdempotent ==
    \A k \in DOMAIN sess :
        sess[k].lastExecution # <<>> =>
           sess[k].lastExecution[1].output = sess[k].lastExecution[1].input

\* the line 'a', 'K', backspace, ESC 'K' was normalized to 'a' for the command a, and
\* normalized again
NormalizationIdempotentWitness ==
    /\ sess[1].captureBuffer = <<"a", "K", BS, ESC, "K">>
    /\ sess[1].lastExecution # <<>>
    /\ sess[1].lastExecution[1].command = <<"a">>
    /\ sess[1].lastExecution[1].input = <<"a">>
    /\ sess[1].lastExecution[1].output = <<"a">>


-----------------------------------------------------------------------------
(* The prober and the OSC handler of one session *)

MaxPolls == 3
MaxProbeChunks == 2

\* OSC 0 with the title v, OSC 2 with the title of a session without a shell, OSC 7
\* with the directory /t
TitleChunk == <<ESC, "]", "0", ";", "v", BEL>>
SameTitleChunk == <<ESC, "]", "2", ";", "T", "e", "r", "m", "i", "n", "a", "l", BEL>>
CwdChunk == <<ESC, "]", "7", ";", "f", ":", "/", "/", "h", "/", "t", BEL>>

ProbeChunks == { TitleChunk, SameTitleChunk, CwdChunk }

\* what a poll derives: the title (empty when ps prints nothing), the environment (<<>>
\* is null) and the output of the cwd probe (<<>> when it failed)
ProbedTitles == { <<>>, <<"T", "e", "r", "m", "i", "n", "a", "l">>, <<"v">> }
ProbedEnvs == { <<>>, <<"">>, <<"A=1">> }
ProbedCwds == { <<>>, << <<>> >>, << <<"/", "t">> >> }

\* the PTY emits a chunk with an OSC sequence
PtyProbe(k, chunk) ==
    /\ Live(k)
    /\ sess[k].pty.alive
    /\ sess[k].dataSubscription
    /\ Len(sess[k].ptyChunks) < MaxProbeChunks
    /\ Commit(HandleDataOp(World, k, chunk))

\* the interval timer of startTitlePolling fires
PollTick(k) ==
    /\ Live(k)
    /\ sess[k].pollingInterval
    /\ sess[k].pollsStarted < MaxPolls
    /\ Commit(PollOp(World, k))

\* a poll has probed the title and the environment and reads this.cwd
PollReadCwd(k, i) ==
    /\ Live(k)
    /\ i \in DOMAIN sess[k].polls
    /\ ~sess[k].polls[i].read
    /\ Commit(PollReadCwdOp(World, k, i))

\* a probing step of a poll fails before the metadata is derived
PollFail(k, i) ==
    /\ Live(k)
    /\ i \in DOMAIN sess[k].polls
    /\ ~sess[k].polls[i].read
    /\ Commit(PollFailOp(World, k, i))

\* a poll ends with what it derived
PollFinish(k, i, newTitle, newEnv, cwdProbe) ==
    /\ Live(k)
    /\ i \in DOMAIN sess[k].polls
    /\ sess[k].polls[i].read
    /\ Commit(PollFinishOp(World, k, i, newTitle, newEnv, cwdProbe))

NextProbe ==
    \/ \E chunk \in ProbeChunks : PtyProbe(1, chunk)
    \/ \E c \in StreamClients : SocketAttach(1, c)
    \/ PollTick(1)
    \/ \E i \in 1..MaxPolls : PollReadCwd(1, i)
    \/ \E i \in 1..MaxPolls : PollFail(1, i)
    \/ \E i \in 1..MaxPolls, newTitle \in ProbedTitles, newEnv \in ProbedEnvs,
          cwdProbe \in ProbedCwds : PollFinish(1, i, newTitle, newEnv, cwdProbe)
    \/ \E details \in ExitDetails : PtyExit(1, details)

SpecProbe == InitStream /\ [][NextProbe]_vars


\* a poll of the session returns in the step
PollEndStep(k) == Len(sess'[k].polls) < Len(sess[k].polls)

\* the meta messages a socket is sent in the step
MetaSentInStep(c) ==
    LET appended == Appended(sock[c].sent, sock'[c].sent)
    IN [i \in {j \in DOMAIN appended : appended[j].type = "meta"} |-> appended[i]]

\* C31: the OSC handler and the prober broadcast a meta message only when the title,
\* the cwd or the environment changes its value, and the message then carries the new
\* values; an OSC 0 or 2 title equal to the title, an OSC 7 path equal to the cwd and a
\* poll that observes the title, environment and cwd unchanged send nothing.
MetaOnlyOnChange ==
    [][\A k \in DOMAIN sess :
          DataStep(k) \/ PollEndStep(k) =>
             LET s == sess[k]
                 t == sess'[k]
                 changed == t.title # s.title \/ t.cwd # s.cwd \/ t.env # s.env
             IN \A c \in Clients :
                   \A metas \in {MetaSentInStep(c)} :
                      /\ ~changed => DOMAIN metas = {}
                      /\ \A i \in DOMAIN metas :
                            metas[i] = MetaMessage(t, t.pty.cols, t.pty.rows)
                      /\ (changed /\ c \in s.clients
                                  /\ sock[c].readyState = WS_STATE_OPEN) =>
                            DOMAIN metas # {}]_vars

\* a client attached; the title v arrived twice by OSC 0 and two polls returned: the
\* client got one meta message after those of its attach, with the title v
MetaOnlyOnChangeWitness ==
    /\ sess[1].ptyChunks = <<TitleChunk, TitleChunk>>
    /\ sess[1].polls = <<>>
    /\ sess[1].pollsStarted = 2
    /\ Len(sock[1].sent) = 4
    /\ sock[1].sent[2].type = "meta"
    /\ sock[1].sent[2].title = <<"T", "e", "r", "m", "i", "n", "a", "l">>
    /\ sock[1].sent[4].type = "meta"
    /\ sock[1].sent[4].title = <<"v">>


-----------------------------------------------------------------------------
(* The geometry of the registry *)

MaxResizes == 2

\* the geometries a caller of resizeAll passes: the initial one and another
Geometries == { <<InitialCols, InitialRows>>, <<100, 40>> }

\* a caller resizes all sessions
ManagerResizeAll(cols, rows) ==
    /\ \A k \in DOMAIN sess : Len(sess[k].pty.resizes) < MaxResizes
    /\ Commit(ResizeAllOp(World, cols, rows))

NextGeometry ==
    \/ PostSession
    \/ \E id \in SessionIds : DeleteSession(id)
    \/ \E id \in SessionIds, c \in Clients : SocketConnect(id, c)
    \/ \E geometry \in Geometries : ManagerResizeAll(geometry[1], geometry[2])

SpecGeometry == InitRegistry /\ [][NextGeometry]_vars

\* the step is a call of resizeAll
ResizeAllStep ==
    \/ <<lastCols', lastRows'>> # <<lastCols, lastRows>>
    \/ \E k \in DOMAIN sess : Len(sess'[k].pty.resizes) > Len(sess[k].pty.resizes)

\* the step is a call of createSession that returned
CreateStep == Len(sess') = Len(sess) + 1

\* C32: resizeAll(cols, rows) sets lastCols and lastRows of the registry to cols and
\* rows, resizes the PTY of every session in the map that is not closed and broadcasts
\* one meta message with cols and rows on each of them; a session created afterwards is
\* spawned with that geometry.
ResizeAllSetsGeometry ==
    [][/\ ResizeAllStep =>
             \A k \in DOMAIN sess :
                IF k \in RegisteredSessions(World) /\ ~sess[k].closed
                THEN /\ sess'[k].pty.resizes =
                           Append(sess[k].pty.resizes, <<lastCols', lastRows'>>)
                     /\ sess'[k].pty.cols = lastCols'
                     /\ sess'[k].pty.rows = lastRows'
                     /\ \A c \in sess[k].clients :
                           sock[c].readyState = WS_STATE_OPEN =>
                              Appended(sock[c].sent, sock'[c].sent)
                                 = << MetaMessage(sess[k], lastCols', lastRows') >>
                ELSE sess'[k] = sess[k]
        /\ CreateStep =>
             /\ <<lastCols', lastRows'>> = <<lastCols, lastRows>>
             /\ sess'[Len(sess')].pty.cols = lastCols
             /\ sess'[Len(sess')].pty.rows = lastRows
             /\ sess'[Len(sess')].pty.resizes = <<>>]_vars

\* the first session was resized to 100 by 40 with a client attached, which got the
\* meta message; the session created afterwards has a PTY of 100 by 40
ResizeAllSetsGeometryWitness ==
    /\ Len(sess) = 2
    /\ lastCols = 100
    /\ lastRows = 40
    /\ sess[1].pty.resizes = << <<100, 40>> >>
    /\ sess[2].pty.resizes = <<>>
    /\ sess[2].pty.cols = 100
    /\ sess[2].pty.rows = 40
    /\ Len(sock[1].sent) = 4
    /\ sock[1].sent[4].type = "meta"
    /\ sock[1].sent[4].cols = 100


\* a poll of the session ends in the catch of poll
PollFailStep(k) == sess'[k].pollsFailed = sess[k].pollsFailed + 1

\* C33: a failure of a probing step of a poll is swallowed: no error leaves the poll,
\* the session is not closed, no client is detached and the timer goes on; when the
\* poll fails before the metadata is derived, title, env and cwd keep their values and
\* no message is sent.
ProbeFailureSwallowed ==
    [][\A k \in DOMAIN sess :
          PollFailStep(k) =>
             /\ ~threw'
             /\ sess'[k].closed = sess[k].closed
             /\ sess'[k].clients = sess[k].clients
             /\ sess'[k].pollingInterval = sess[k].pollingInterval
             /\ sess'[k].title = sess[k].title
             /\ sess'[k].env = sess[k].env
             /\ sess'[k].cwd = sess[k].cwd
             /\ sess'[k].pty = sess[k].pty
             /\ sock' = sock]_vars

\* the poll of the constructor failed with a client attached; the session is open, the
\* client is still attached with the three messages of its attach, and the timer has
\* started the next poll
ProbeFailureSwallowedWitness ==
    /\ sess[1].pollsFailed = 1
    /\ sess[1].pollsStarted = 2
    /\ Len(sess[1].polls) = 1
    /\ sess[1].pollingInterval
    /\ ~sess[1].closed
    /\ sess[1].clients = {1}
    /\ Len(sock[1].sent) = 3


-----------------------------------------------------------------------------
(* The heartbeat of the transport *)

MaxHeartbeats == 4

\* the heartbeat interval fires
HeartbeatTick ==
    /\ \A c \in Clients : sock[c].heartbeats < MaxHeartbeats
    /\ sock' = [c \in Clients |-> HeartbeatSocket(sock[c])]
    /\ UNCHANGED <<sess, sessions, lastCols, lastRows, disposing, now, threw>>

\* the pong of a client arrives
ClientPong(c) ==
    /\ sock[c].readyState = WS_STATE_OPEN
    /\ sock[c].pings > 0
    /\ sock' = [sock EXCEPT ![c] = PongSocket(@)]
    /\ UNCHANGED <<sess, sessions, lastCols, lastRows, disposing, now, threw>>

NextHeartbeat ==
    \/ \E c \in Clients : SocketAttach(1, c)
    \/ HeartbeatTick
    \/ \E c \in Clients : ClientPong(c)
    \/ \E c \in Clients : SocketClosed(c)

SpecHeartbeat == InitStream /\ [][NextHeartbeat]_vars

\* the step is a tick of the heartbeat
HeartbeatStep == \A c \in Clients : sock'[c].heartbeats = sock[c].heartbeats + 1

\* C34: at each tick of the heartbeat a socket that has not answered the previous ping
\* of the server with a pong is terminated and every other socket is marked not alive
\* and pinged; a socket that answers every ping before the next tick is never
\* terminated by the heartbeat, and a socket that stops answering is terminated no
\* later than the second tick after its last pong.
HeartbeatTerminatesSilent ==
    [][\A c \in Clients :
          /\ (HeartbeatStep /\ InWssClients(sock[c])) =>
                IF sock[c].pings > 0
                THEN sock'[c].terminated
                ELSE /\ ~sock'[c].isAlive
                     /\ sock'[c].pings = 1
                     /\ sock'[c].terminated = sock[c].terminated
          /\ (sock'[c].terminated /\ ~sock[c].terminated) =>
                /\ HeartbeatStep
                /\ sock[c].pings > 0
                /\ sock'[c].sincePong = 2
          /\ (InWssClients(sock'[c]) /\ ~sock'[c].terminated) => sock'[c].sincePong <= 1]_vars

\* after four ticks the first client, which answered the first three pings, is
\* connected and pinged; the second, which answered the first ping only, is terminated
HeartbeatTerminatesSilentWitness ==
    /\ sock[1].heartbeats = MaxHeartbeats
    /\ sock[1].readyState = WS_STATE_OPEN
    /\ ~sock[1].terminated
    /\ sock[1].pings = 1
    /\ sock[2].terminated
    /\ sock[2].sincePong >= 2


-----------------------------------------------------------------------------
(* The bytes a client gets across its attach *)

\* the data of the entries of a log, in order
EntryData(log) == [i \in 1..Len(log) |-> log[i].data]

\* the client is attached to a session and its socket is open
AttachedOpen(c) ==
    /\ sock[c].readyState = WS_STATE_OPEN
    /\ sock[c].session \in DOMAIN sess
    /\ c \in sess[sock[c].session].clients
    /\ sock[c].sent # <<>>

\* the snapshot of the client is the first n texts of the log cut to the history limit,
\* and its output messages are the texts after them, one message for each
SplitsLogAt(c, log, n) ==
    /\ sock[c].sent[1].type = "snapshot"
    /\ sock[c].sent[1].data =
          LastChars(ConcatData(SubSeq(log, 1, n)), sess[sock[c].session].historyLimit)
    /\ OutputData(sock[c].sent) = EntryData(SubSeq(log, n + 1, Len(log)))

\* C35 (as stated): for a client that attached and stayed open, the snapshot followed
\* by the data of the output messages it received since is the concatenation of the
\* cleaned chunks the session has processed, up to the truncation of the snapshot at
\* its head: no chunk is in both and none is in neither.
AttachSplitsCleanedChunks ==
    \A c \in Clients :
        AttachedOpen(c) =>
           \A chunks \in {SelectSeq(sess[sock[c].session].emitLog, IsPtyEntry)} :
              \E n \in 0..Len(chunks) : SplitsLogAt(c, chunks, n)

\* C35 (amended): for a client that attached and stayed open, the snapshot followed by
\* the data of the output messages it received since is the concatenation of the texts
\* appended to the history, which are the cleaned chunks and the texts the session wrote
\* itself for an AI command, up to the truncation of the snapshot at its head: no text
\* is in both and none is in neither.
AttachSplitsEmissions ==
    \A c \in Clients :
        AttachedOpen(c) =>
           \A log \in {sess[sock[c].session].emitLog} :
              \E n \in 0..Len(log) : SplitsLogAt(c, log, n)

\* a client attached after a chunk and got the chunk in its snapshot, then another
\* chunk and the texts of an AI command as output messages
AttachSplitsEmissionsWitness ==
    \E c \in Clients :
        /\ AttachedOpen(c)
        /\ sock[c].sent[1].data # <<>>
        /\ LET log == sess[sock[c].session].emitLog
           IN /\ Len(log) >= 4
              /\ IsPtyEntry(log[1])
              /\ \E i \in 2..Len(log) : IsPtyEntry(log[i])
              /\ \E i \in 2..Len(log) : IsSessionEntry(log[i])
              /\ SplitsLogAt(c, log, 1)


-----------------------------------------------------------------------------
(* The messages of a session after its PTY exited *)

IsTerminatedStatus(msg) == msg.type = "status" /\ msg.status = "terminated"

\* C36: for every client the terminated status is the last message it receives from the
\* session: no output or meta message follows it, also when a prober tick or an AI
\* command that started before the PTY exit completes afterwards.
TerminatedIsLastMessage ==
    \A c \in Clients :
        \A i \in DOMAIN sock[c].sent :
            IsTerminatedStatus(sock[c].sent[i]) => i = Len(sock[c].sent)

\* a client got the terminated status as its last message while no AI command and no
\* prober tick was in flight
TerminatedIsLastMessageWitness ==
    \E c \in Clients :
        /\ sock[c].sent # <<>>
        /\ IsTerminatedStatus(sock[c].sent[Len(sock[c].sent)])
        /\ sock[c].session \in DOMAIN sess
        /\ sess[sock[c].session].closed
        /\ sess[sock[c].session].aiInFlight = <<>>
        /\ \E i \in DOMAIN sock[c].sent : sock[c].sent[i].type = "output"

-----------------------------------------------------------------------------
(* AI commands of one session *)

\* the number of writes to the PTY up to which clients send input lines: two '#' lines
\* and the write of one AI command that completed between them
MaxAiWrites == 3

\* a client sends an input message although earlier input was written to the PTY
ClientLine(c, data) ==
    /\ sock[c].readyState = WS_STATE_OPEN
    /\ sock[c].session # 0
    /\ Len(sess[sock[c].session].pty.writes) < MaxAiWrites
    /\ Commit(HandleInput(World, sock[c].session, data))

\* alan.prompt of an AI command in flight resolves or rejects
AiSettle ==
    \/ \E i \in 1..MaxAiWrites, text \in AiTexts : AiResolve(1, i, text)
    \/ \E i \in 1..MaxAiWrites, message \in AiErrors : AiReject(1, i, message)

NextAi ==
    \/ \E chunk \in SessionChunks : PtyData(1, chunk)
    \/ \E c \in StreamClients : SocketAttach(1, c)
    \/ \E c \in StreamClients : ClientLine(c, <<"#", "h", "i", CR>>)
    \/ \E i \in 1..MaxAiWrites, text \in AiTexts : AiStream(1, i, text)
    \/ AiSettle

SpecAi == InitStream /\ [][NextAi]_vars

\* every call of alan.prompt resolves or rejects in the end
SpecAiSettles == SpecAi /\ WF_vars(AiSettle)

\* C37: while an AI command started by a '#' line is in flight on a session, the output
\* of the PTY stays suppressed, also when a second '#' line was submitted before the
\* first AI command completed.
SuppressedWhileAiInFlight ==
    \A k \in DOMAIN sess :
        sess[k].aiInFlight # <<>> => sess[k].suppressPtyOutput

\* two AI commands are in flight and the output of the PTY is suppressed
SuppressedWhileAiInFlightWitness ==
    \E k \in DOMAIN sess :
        /\ Len(sess[k].aiInFlight) = 2
        /\ sess[k].suppressPtyOutput

\* C38: every '#' hijack resumes the terminal in the end: when alan.prompt resolves or
\* rejects, a session whose PTY output is suppressed comes to a state where it is not.
HijackResumes ==
    \A k \in {1} : sess[k].suppressPtyOutput ~> ~sess[k].suppressPtyOutput

\* an AI command resolved and one rejected, none is in flight, and a chunk of the PTY
\* that arrived afterwards is in the history
HijackResumesWitness ==
    \E k \in DOMAIN sess :
        /\ ~sess[k].suppressPtyOutput
        /\ sess[k].aiInFlight = <<>>
        /\ \E i, j \in DOMAIN sess[k].executions :
              /\ sess[k].executions[i].exitCode = 0
              /\ sess[k].executions[j].exitCode = 1
        /\ sess[k].emitLog # <<>>
        /\ IsPtyEntry(sess[k].emitLog[Len(sess[k].emitLog)])


-----------------------------------------------------------------------------
(* The side-records of the persistence layer *)

\* the geometry of the resize messages of the clients
StoredGeometry == <<Num(200), Num(40)>>

\* fs.writeFile of a saveSession call completes: the side-record exists
WriteFileDone(k) ==
    /\ Live(k)
    /\ sess[k].saving > 0
    /\ sess' = [sess EXCEPT ![k].saving = @ - 1, ![k].stored = TRUE]
    /\ UNCHANGED <<sock, sessions, lastCols, lastRows, disposing, now, threw>>

\* fs.unlink of a deleteSession call completes: the side-record does not exist
UnlinkDone(k) ==
    /\ Live(k)
    /\ sess[k].unlinking > 0
    /\ sess' = [sess EXCEPT ![k].unlinking = @ - 1, ![k].stored = FALSE]
    /\ UNCHANGED <<sock, sessions, lastCols, lastRows, disposing, now, threw>>

NextPersist ==
    \/ \E id \in SessionIds, c \in StreamClients : SocketConnect(id, c)
    \/ \E c \in StreamClients :
          ClientMessage(c, ResizeFrame(StoredGeometry[1], StoredGeometry[2]))
    \/ \E c \in StreamClients : ClientInput(c, <<"#", "h", "i", CR>>)
    \/ \E k \in SessionIds, i \in 1..MaxWrites, text \in AiTexts : AiResolve(k, i, text)
    \/ \E id \in SessionIds : DeleteSession(id)
    \/ \E k \in SessionIds : WriteFileDone(k)
    \/ \E k \in SessionIds : UnlinkDone(k)

SpecPersist == InitRegistry /\ [][NextPersist]_vars

\* removeSession was called for the session at k
Removed(k) == sess[k].manager /\ k \notin RegisteredSessions(World)

\* no call of the persistence layer for the session at k is pending
PersistenceSettled(k) == sess[k].saving = 0 /\ sess[k].unlinking = 0

\* C39: once removeSession(id) has been called and the pending operations of the
\* persistence layer have completed, no side-record exists for id: a save that is in
\* flight at the removal or issued after it never recreates the deleted record.
RemovedRecordStaysDeleted ==
    \A k \in DOMAIN sess :
        Removed(k) /\ PersistenceSettled(k) => ~sess[k].stored

\* a session whose state was saved after a resize was removed, the operations of the
\* persistence layer have completed and its side-record does not exist
RemovedRecordStaysDeletedWitness ==
    \E k \in DOMAIN sess :
        /\ Removed(k)
        /\ PersistenceSettled(k)
        /\ sess[k].pty.resizes # <<>>
        /\ ~sess[k].stored


=============================================================================
